---- MODULE Spec2Model ----
(***************************************************************************)
(* A model of the ROM archive browser / downloader scripts of rom-browser: *)
(*   scripts/rom-sourcing/rom_browser.py     (ROMBrowser)                  *)
(*   scripts/rom-sourcing/rom_files.py       (ROMFilesBrowser)             *)
(*   scripts/rom-sourcing/rom_downloader.py  (ROMDownloader)               *)
(* and of the game library tools beside them:                              *)
(*   external/GameShortcuts/custom_ratings_manager.py                      *)
(*   scripts/shortcuts/create_shortcuts_single.py, create_shortcuts_config.py *)
(*                                                                         *)
(* Strings are sequences of one-character strings, so that prefix, suffix, *)
(* substring, percent-coding and line splitting are computed, not assumed. *)
(* One token of several characters stands for the fixed archive prefix of  *)
(* every URL (BaseTok); it holds none of the characters the code tests.    *)
(***************************************************************************)
EXTENDS Integers, Sequences, FiniteSets, TLC

(***************************************************************************)
(* Bounds of the model.                                                    *)
(***************************************************************************)
\* anchors of one generated index page
MaxIndexLen == 2
\* URLs in the queue file a downloader session starts from
MaxQueueLen == 2
\* chunks in the body of a downloaded file
BodyChunks == 1
\* download_file calls, over all the downloader sessions of a run
MaxCalls == 4
\* appends to a history that is already full
MaxOverflow == 2
\* browse_directory calls nested in one another
MaxDepth == 2
\* files in a tree find_executables scans
MaxTreeFiles == 3
\* entries of a list beyond one page
MaxExtraItems == 2
\* games the launcher has loaded
MaxGames == 2
\* clicks on "download metadata"
MaxClicks == 3
\* nested activations of resolve_game_name before RecursionError
MaxRecursion == 3

(***************************************************************************)
(* Constants of the code.                                                  *)
(***************************************************************************)
\* rom_browser.py:116
RBHistoryMax == 100
\* rom_files.py:92
FBHistoryMax == 50
\* rom_browser.py:41
page_size == 50

(***************************************************************************)
(* State.                                                                  *)
(***************************************************************************)
VARIABLES
  \* --- parsing one index page -------------------------------------------
  index,          \* temp/index.html: the anchors of the page last fetched
  rb_parsed,      \* ROMBrowser: what parse_index returned for it, if called
  fb_parsed,      \* ROMFilesBrowser: what list_*_links returned, if called
  \* --- the files shared by the scripts ----------------------------------
  queue_file,     \* ./download_queue: [exists, text]
  dl_files,       \* ./downloads: the names of the files that exist
  dl_partial,     \* those of them whose body was not written to the end
  \* --- ROMDownloader ----------------------------------------------------
  download_stats, \* self.download_stats
  dl_mode,        \* how main() runs this process: interactive, queue, platform
  dl_pc,          \* where the process is
  batch_kind,     \* the batch in progress: queue or platform
  batch_items,    \* queue_items / rom_files of the batch: [url, filename]
  batch_i,        \* the loop's position in batch_items
  df_written,     \* download_file: chunks written to the open file
  n_calls,        \* download_file calls made so far, by all sessions
  \* --- history of the run, read by the properties only ------------------
  g_batch0,       \* at the start of the batch: the stats, the queue file,
                  \* for a platform: max_files and the sorted ROM files,
                  \* and whether the process follows one that died in a
                  \* queue batch
  g_attempts,     \* the download_file calls of the batch, with their outcome
  g_call,         \* the download_file call in progress or last returned
  g_succeeded,    \* the <<url, filename>> whose download_file returned True
  \* --- the browser that runs (ROMBrowser or ROMFilesBrowser) -------------
  nav_browser,    \* the class of the object
  history,        \* self.history
  history_file,   \* rom-browse-history.txt / mbrowse_history.txt
  download_queue, \* ROMBrowser: self.download_queue
  current_url,    \* self.current_url
  filter_file,    \* ROMBrowser: ../config/rom-filter.txt
  nav_pc,         \* where the session is: a prompt, or about to fetch an index
  nav_stack,      \* the url of each browse_directory call in progress
  nav_locals,     \* directories, files and the filtered list of the innermost
  nav_origin,     \* what called the outermost: main_menu or show_history
  \* --- history of the run, read by the properties only ------------------
  q_pc,           \* the last of save / load_download_queue, and their order
  g_saved,        \* download_queue as it was at the last save
  g_appended,     \* every URL add_to_history appended, in order
  g_hist_url,     \* the argument of the last add_to_history call
  \* --- CustomRatingsManager ---------------------------------------------
  custom_data,    \* self.custom_data
  data_file,      \* custom_ratings.json
  \* --- history of the run, read by the properties only ------------------
  g_rating,       \* per game: the rating set and not removed since, or None
  r_last,         \* the last call of the manager
  \* --- find_executables -------------------------------------------------
  scan_variant,   \* the script: create_shortcuts_single or _config
  scan_tree,      \* the files under the target directory
  scan_walk,      \* the order os.walk yielded them in, in the last call
  scan_called,    \* find_executables was called
  scan_selected,  \* the list it returned
  \* --- the pages of a list, the launcher's threads, the name resolver ----
  pager,          \* the list shown by display_items and the answer to it
  gui,            \* the games loaded and the metadata threads started
  resolver,       \* the call of resolve_game_name in progress
  g_nav           \* the last step of the session, and the state it began in

varsParse == <<index, rb_parsed, fb_parsed>>
varsFiles == <<queue_file, dl_files, dl_partial>>
varsDl    == <<download_stats, dl_mode, dl_pc, batch_kind, batch_items,
               batch_i, df_written, n_calls,
               g_batch0, g_attempts, g_call, g_succeeded>>
varsDlButPc == <<download_stats, dl_mode, batch_kind, batch_items,
                 batch_i, df_written, n_calls,
                 g_batch0, g_attempts, g_call, g_succeeded>>
varsBrowser == <<nav_browser, history, history_file, download_queue,
                 current_url, filter_file>>
varsNav     == <<nav_pc, nav_stack, nav_locals, nav_origin, g_nav>>
varsGhostB  == <<q_pc, g_saved, g_appended, g_hist_url>>
varsRatings == <<custom_data, data_file, g_rating, r_last>>
varsScan    == <<scan_variant, scan_tree, scan_walk, scan_called,
                 scan_selected>>
varsExtra   == <<pager, gui, resolver>>
varsTools   == <<varsRatings, varsScan, varsExtra>>
vars      == <<varsParse, varsFiles, varsDl, varsBrowser, varsNav, varsGhostB,
               varsTools>>

\* what the steps of one component leave alone
exceptParse == <<varsFiles, varsDl, varsBrowser, varsNav, varsGhostB,
                 varsTools>>
exceptDl    == <<varsParse, varsBrowser, varsNav, varsGhostB, varsTools>>
exceptQueue == <<varsParse, dl_files, dl_partial, varsDl, nav_browser, history,
                 history_file, current_url, filter_file, varsNav,
                 g_appended, g_hist_url, varsTools>>
exceptHistory == <<varsParse, varsFiles, varsDl, nav_browser, download_queue,
                   current_url, filter_file, varsNav, q_pc, g_saved,
                   varsTools>>
exceptNav   == <<rb_parsed, fb_parsed, varsDl, nav_browser, varsGhostB,
                 varsTools>>
exceptRatings == <<varsParse, varsFiles, varsDl, varsBrowser, varsNav,
                   varsGhostB, varsScan, varsExtra>>
exceptScan  == <<varsParse, varsFiles, varsDl, varsBrowser, varsNav,
                 varsGhostB, varsRatings, varsExtra>>
exceptPager == <<varsParse, varsFiles, varsDl, varsBrowser, varsNav,
                 varsGhostB, varsRatings, varsScan, gui, resolver>>
exceptGui   == <<varsParse, varsFiles, varsDl, varsBrowser, varsNav,
                 varsGhostB, varsRatings, varsScan, pager, resolver>>
exceptResolver == <<varsParse, varsFiles, varsDl, varsBrowser, varsNav,
                    varsGhostB, varsRatings, varsScan, pager, gui>>

(***************************************************************************)
(* Strings.                                                                *)
(***************************************************************************)
Range(s) == {s[i] : i \in 1..Len(s)}

\* code points of the characters the model's strings are written in
CharCode ==
  [c \in {" ", "%", ".", "/", "0", "2", "3", "5", "7", "9", "?", "A", "B",
          "D", "F", "H", "a", "b", "e", "h", "m", "o", "p", "t", "z",
          "\n", "\r", "\t"} |->
     CASE c = "\t" -> 9   [] c = "\n" -> 10  [] c = "\r" -> 13
       [] c = " " -> 32   [] c = "%" -> 37   [] c = "." -> 46
       [] c = "/" -> 47   [] c = "0" -> 48   [] c = "2" -> 50
       [] c = "3" -> 51   [] c = "5" -> 53   [] c = "9" -> 57
       [] c = "7" -> 55
       [] c = "?" -> 63   [] c = "A" -> 65   [] c = "B" -> 66
       [] c = "D" -> 68   [] c = "F" -> 70   [] c = "H" -> 72
       [] c = "a" -> 97   [] c = "b" -> 98   [] c = "e" -> 101
       [] c = "h" -> 104  [] c = "m" -> 109  [] c = "o" -> 111
       [] c = "p" -> 112  [] c = "t" -> 116  [] c = "z" -> 122]

Chars == DOMAIN CharCode

\* str.lower() on one character
LowerChar(c) ==
  CASE c = "A" -> "a" [] c = "B" -> "b" [] c = "D" -> "d"
    [] c = "F" -> "f" [] c = "H" -> "h" [] c = "Q" -> "q" [] OTHER -> c

\* str.lower()
Lower(s) == [i \in 1..Len(s) |-> LowerChar(s[i])]

\* ord(c); "d" and "f" arise only from Lower
Ord(c) == CASE c = "d" -> 100 [] c = "f" -> 102 [] OTHER -> CharCode[c]

\* s.startswith(p)
StartsWith(s, p) == Len(s) >= Len(p) /\ SubSeq(s, 1, Len(p)) = p

\* s.endswith(p)
EndsWith(s, p) ==
  Len(s) >= Len(p) /\ SubSeq(s, Len(s) - Len(p) + 1, Len(s)) = p

\* p in s  (substring test)
Contains(s, p) ==
  \E i \in 1..(Len(s) - Len(p) + 1) : SubSeq(s, i, i + Len(p) - 1) = p

\* s.rstrip('/')
RECURSIVE RStripSlash(_)
RStripSlash(s) ==
  IF s # <<>> /\ s[Len(s)] = "/" THEN RStripSlash(SubSeq(s, 1, Len(s) - 1))
  ELSE s

\* s.replace(old, new): every non-overlapping occurrence, left to right
RECURSIVE Replace(_, _, _)
Replace(s, old, new) ==
  IF s = <<>> THEN <<>>
  ELSE IF StartsWith(s, old)
       THEN new \o Replace(SubSeq(s, Len(old) + 1, Len(s)), old, new)
       ELSE <<s[1]>> \o Replace(Tail(s), old, new)

\* the order of str under <  (lexicographic by code point)
RECURSIVE StrLess(_, _)
StrLess(a, b) ==
  IF b = <<>> THEN FALSE
  ELSE IF a = <<>> THEN TRUE
  ELSE IF Ord(a[1]) < Ord(b[1]) THEN TRUE
  ELSE IF Ord(a[1]) > Ord(b[1]) THEN FALSE
  ELSE StrLess(Tail(a), Tail(b))

\* list.sort(key=...) on a list of <<key, value>>: stable, ascending by key
RECURSIVE InsertByKey(_, _)
InsertByKey(sorted, kv) ==
  IF sorted = <<>> THEN <<kv>>
  ELSE IF StrLess(kv[1], sorted[Len(sorted)][1])
       THEN InsertByKey(SubSeq(sorted, 1, Len(sorted) - 1), kv)
              \o <<sorted[Len(sorted)]>>
       ELSE sorted \o <<kv>>

RECURSIVE SortByKey(_)
SortByKey(kvs) ==
  IF kvs = <<>> THEN <<>>
  ELSE InsertByKey(SortByKey(SubSeq(kvs, 1, Len(kvs) - 1)), kvs[Len(kvs)])

Values(kvs) == [i \in 1..Len(kvs) |-> kvs[i][2]]

\* the characters str.strip() removes, among those of the model
Whitespace == {" ", "\t", "\n", "\r"}

RECURSIVE LStrip(_)
LStrip(s) == IF s # <<>> /\ s[1] \in Whitespace THEN LStrip(Tail(s)) ELSE s

RECURSIVE RStrip(_)
RStrip(s) ==
  IF s # <<>> /\ s[Len(s)] \in Whitespace
  THEN RStrip(SubSeq(s, 1, Len(s) - 1)) ELSE s

\* s.strip()
Strip(s) == LStrip(RStrip(s))

\* the lines of a text file opened in text mode (universal newlines: \n, \r
\* and \r\n each end a line), without their line ends
RECURSIVE SplitLines(_, _)
SplitLines(text, line) ==
  IF text = <<>> THEN (IF line = <<>> THEN <<>> ELSE <<line>>)
  ELSE IF text[1] = "\n" THEN <<line>> \o SplitLines(Tail(text), <<>>)
  ELSE IF text[1] = "\r"
       THEN <<line>> \o SplitLines(IF Len(text) >= 2 /\ text[2] = "\n"
                                    THEN SubSeq(text, 3, Len(text))
                                    ELSE Tail(text), <<>>)
  ELSE SplitLines(Tail(text), Append(line, text[1]))

\* [line.strip() for line in f if line.strip()]
RECURSIVE StrippedNonEmpty(_)
StrippedNonEmpty(lines) ==
  IF lines = <<>> THEN <<>>
  ELSE LET l == Strip(lines[1]) IN
       (IF l = <<>> THEN <<>> ELSE <<l>>) \o StrippedNonEmpty(Tail(lines))

read_lines(text) == StrippedNonEmpty(SplitLines(text, <<>>))

\* a faulty save, which writes a space after each item
RECURSIVE write_spaced(_)
write_spaced(items) ==
  IF items = <<>> THEN <<>>
  ELSE items[1] \o <<" ">> \o write_spaced(Tail(items))

\* for item in items: f.write(f"{item}\n")
RECURSIVE write_lines(_)
write_lines(items) ==
  IF items = <<>> THEN <<>>
  ELSE items[1] \o <<"\n">> \o write_lines(Tail(items))

\* s.split('/')[-1]
RECURSIVE LastSegment(_)
LastSegment(s) ==
  IF s = <<>> \/ s[Len(s)] = "/" THEN <<>>
  ELSE Append(LastSegment(SubSeq(s, 1, Len(s) - 1)), s[Len(s)])

\* s[:k] of a list, for any integer k
SliceTo(s, k) ==
  IF k >= 0 THEN SubSeq(s, 1, IF k < Len(s) THEN k ELSE Len(s))
  ELSE SubSeq(s, 1, Len(s) + k)

(***************************************************************************)
(* Percent coding.                                                         *)
(***************************************************************************)
HexDigits == {"0", "2", "3", "5", "7", "9", "A", "B", "D", "F", "a", "b", "e"}

HexVal(c) ==
  CASE c = "0" -> 0 [] c = "2" -> 2 [] c = "3" -> 3 [] c = "5" -> 5
    [] c = "7" -> 7 [] c = "9" -> 9 [] c \in {"A", "a"} -> 10 [] c \in {"B", "b"} -> 11
    [] c = "D" -> 13 [] c = "e" -> 14 [] c = "F" -> 15

\* chr(n) for the code points of Chars; the model's hrefs escape no others
Chr(n) == CHOOSE c \in Chars : CharCode[c] = n

\* urllib.parse.unquote: %XX with two hex digits becomes the character
RECURSIVE unquote(_)
unquote(s) ==
  IF s = <<>> THEN <<>>
  ELSE IF s[1] = "%" /\ Len(s) >= 3 /\ s[2] \in HexDigits /\ s[3] \in HexDigits
       THEN <<Chr(16 * HexVal(s[2]) + HexVal(s[3]))>>
              \o unquote(SubSeq(s, 4, Len(s)))
       ELSE <<s[1]>> \o unquote(Tail(s))

\* the characters urllib.parse.quote leaves alone (safe='/'), among Chars
QuoteSafe == {".", "/", "0", "2", "3", "5", "7", "9", "A", "B", "D", "F", "H",
              "a", "b", "e", "h", "m", "o", "p", "t", "z"}

QuoteChar(c) ==
  CASE c \in QuoteSafe -> <<c>>
    [] c = " "  -> <<"%", "2", "0">>
    [] c = "%"  -> <<"%", "2", "5">>
    [] c = "?"  -> <<"%", "3", "F">>
    [] c = "\t" -> <<"%", "0", "9">>
    [] c = "\n" -> <<"%", "0", "A">>
    [] c = "\r" -> <<"%", "0", "D">>

\* urllib.parse.quote
RECURSIVE quote(_)
quote(s) == IF s = <<>> THEN <<>> ELSE QuoteChar(s[1]) \o quote(Tail(s))

\* ROMFilesBrowser.urlencode: the replacements, applied in dict order
urlencode(text) ==
  LET r1  == Replace(text, <<"%">>, <<"%", "2", "5">>)
      r2  == Replace(r1, <<" ">>, <<"%", "2", "0">>)
      r3  == Replace(r2, <<"(">>, <<"%", "2", "8">>)
      r4  == Replace(r3, <<")">>, <<"%", "2", "9">>)
      r5  == Replace(r4, <<"+">>, <<"%", "2", "B">>)
      r6  == Replace(r5, <<"&">>, <<"%", "2", "6">>)
      r7  == Replace(r6, <<"'">>, <<"%", "2", "7">>)
      r8  == Replace(r7, <<",">>, <<"%", "2", "C">>)
      r9  == Replace(r8, <<"[">>, <<"%", "5", "B">>)
  IN  Replace(r9, <<"]">>, <<"%", "5", "D">>)

\* ROMFilesBrowser.urldecode_display: the replacements, applied in dict order
urldecode_display(text) ==
  LET r1  == Replace(text, <<"%", "2", "0">>, <<" ">>)
      r2  == Replace(r1, <<"%", "2", "8">>, <<"(">>)
      r3  == Replace(r2, <<"%", "2", "9">>, <<")">>)
      r4  == Replace(r3, <<"%", "2", "B">>, <<"+">>)
      r5  == Replace(r4, <<"%", "2", "6">>, <<"&">>)
      r6  == Replace(r5, <<"%", "2", "7">>, <<"'">>)
      r7  == Replace(r6, <<"%", "2", "C">>, <<",">>)
      r8  == Replace(r7, <<"%", "5", "B">>, <<"[">>)
      r9  == Replace(r8, <<"%", "5", "D">>, <<"]">>)
      r10 == Replace(r9, <<"%", "5", "b">>, <<"[">>)
  IN  Replace(r10, <<"%", "5", "d">>, <<"]">>)

(***************************************************************************)
(* Index pages.  An index page is the sequence of its anchors, in document *)
(* order: what re.findall(r'href="([^"]+)"') reads (the href, never empty) *)
(* and the title attribute that list_dirs_links looks up.                  *)
(***************************************************************************)
Anchor(h) == [href |-> h, has_title |-> FALSE, title |-> <<>>]
TitledAnchor(h, t) == [href |-> h, has_title |-> TRUE, title |-> t]

\* the hrefs index pages are generated from: one of each kind the parsers
\* tell apart
SampleHrefs ==
  { <<".", ".", "/">>,                          \* ../
    <<".", ".">>,                               \* ..
    <<"h", "t", "t", "p", "/">>,                \* http/   (absolute prefix)
    <<"h", "t", "t", "p", "a">>,                \* httpa
    <<"?", "a">>,                               \* ?a      (query link)
    <<"a", "?", "/">>,                          \* a?/
    <<"/">>,                                    \* /
    <<"a", "/">>,                               \* a/
    <<"a">>,                                    \* a
    <<"B", "/">>,                               \* B/
    <<"B">>,                                    \* B
    <<"a", "%", "2", "0", "b">>,                \* a%20b
    <<"a", "%", "2", "0", "b", "/">>,           \* a%20b/
    <<"a", "%", "2", "F">>,                     \* a%2F
    <<"h", "o", "m", "e", "/">>,                \* home/   (navigation link)
    <<"H", "o", "m", "e">> }                    \* Home

SampleTitles == { <<"z">>, <<>> }

SampleAnchors ==
  {Anchor(h) : h \in SampleHrefs}
    \cup {TitledAnchor(h, t) : h \in {<<"a", "/">>, <<"B", "/">>}, t \in SampleTitles}

\* every page of at most n anchors
PagesUpTo(n) == UNION {[1..k -> SampleAnchors] : k \in 0..n}

Hrefs(page) == [i \in 1..Len(page) |-> page[i].href]

(***************************************************************************)
(* ROMBrowser.parse_index                                                  *)
(***************************************************************************)
\* rom_browser.py:161,165: the hrefs the loop skips
rb_skipped(href) ==
  \/ href \in {<<".", ".", "/">>, <<".", ".">>}
  \/ StartsWith(href, <<"h", "t", "t", "p">>)
  \/ Contains(href, <<"?">>)

\* rom_browser.py:159-179: the loop body, on the lists built so far
parse_href(acc, href) ==
  IF rb_skipped(href) THEN acc
  ELSE LET decoded_href == unquote(href) IN
       IF EndsWith(href, <<"/">>)
       THEN LET dir_name == RStripSlash(decoded_href) IN
            IF dir_name # <<>> /\ dir_name \notin Range(acc.directories)
            THEN [acc EXCEPT !.directories = Append(@, dir_name)]
            ELSE acc
       ELSE IF decoded_href # <<>> /\ decoded_href \notin Range(acc.files)
            THEN [acc EXCEPT !.files = Append(@, decoded_href)]
            ELSE acc

RECURSIVE parse_hrefs(_)
parse_hrefs(hrefs) ==
  IF hrefs = <<>> THEN [directories |-> <<>>, files |-> <<>>]
  ELSE parse_href(parse_hrefs(SubSeq(hrefs, 1, Len(hrefs) - 1)),
                  hrefs[Len(hrefs)])

\* list.sort() of a list of str
sort_str(names) ==
  Values(SortByKey([i \in 1..Len(names) |-> <<names[i], names[i]>>]))

\* rom_browser.py:143-188
parse_index(page) ==
  LET acc == parse_hrefs(Hrefs(page)) IN
  [directories |-> sort_str(acc.directories), files |-> sort_str(acc.files)]

(***************************************************************************)
(* ROMFilesBrowser.list_dirs_links / list_files_links                      *)
(***************************************************************************)
\* rom_files.py:187: skip_patterns of list_dirs_links
dir_skip_patterns ==
  { <<"c", "o", "n", "t", "a", "c", "t">>, <<"d", "o", "n", "a", "t", "e">>,
    <<"f", "a", "q">>, <<"u", "p", "l", "o", "a", "d">>,
    <<"d", "i", "s", "c", "o", "r", "d">>,
    <<"t", "e", "l", "e", "g", "r", "a", "m">>,
    <<"h", "s", "h", "o", "p">>, <<"h", "o", "m", "e">> }

\* rom_files.py:238: skip_patterns of list_files_links
file_skip_patterns ==
  dir_skip_patterns \cup
    { <<"P", "a", "r", "e", "n", "t", " ",
        "d", "i", "r", "e", "c", "t", "o", "r", "y">> }

\* any(pattern in href.lower() for pattern in skip_patterns)
matches_skip(href, patterns) == \E p \in patterns : Contains(Lower(href), p)

\* rom_files.py:174: href="([^"]+/)" matches an href of two or more
\* characters that ends with a slash
dir_pattern_matches(href) == Len(href) >= 2 /\ href[Len(href)] = "/"

\* rom_files.py:179-189: the hrefs the directory loop skips
fb_dir_skipped(href) ==
  \/ href \in {<<".", ".", "/">>, <<".", ".">>}
  \/ StartsWith(href, <<"h", "t", "t", "p">>)
  \/ Contains(href, <<"?">>)
  \/ matches_skip(href, dir_skip_patterns)

\* rom_files.py:230-240: the hrefs the file loop skips
fb_file_skipped(href) ==
  \/ EndsWith(href, <<"/">>)
  \/ StartsWith(href, <<"h", "t", "t", "p">>)
  \/ Contains(href, <<"?">>)
  \/ matches_skip(href, file_skip_patterns)

\* rom_files.py:195-204: the title of the first anchor of the page with this
\* href and a title, else the href without its trailing slashes; decoded
dir_display_name(page, href) ==
  LET titled == {i \in 1..Len(page) :
                   page[i].href = href /\ page[i].has_title}
      first == CHOOSE i \in titled : \A j \in titled : i <= j
  IN  urldecode_display(IF titled # {} THEN page[first].title
                        ELSE RStripSlash(href))

\* the entries appended by a loop, before the sort
RECURSIVE dir_entries(_, _)
dir_entries(page, n) ==
  IF n = 0 THEN <<>>
  ELSE LET href == page[n].href
           rest == dir_entries(page, n - 1)
       IN  IF dir_pattern_matches(href) /\ ~fb_dir_skipped(href)
           THEN Append(rest, [display_name |-> dir_display_name(page, href),
                              href |-> href])
           ELSE rest

RECURSIVE file_entries(_, _)
file_entries(page, n) ==
  IF n = 0 THEN <<>>
  ELSE LET href == page[n].href
           rest == file_entries(page, n - 1)
       IN  IF ~fb_file_skipped(href)
           THEN Append(rest, [display_name |-> urldecode_display(href),
                              href |-> href])
           ELSE rest

\* list.sort(key=lambda x: x[0].lower())
sort_by_display(entries) ==
  Values(SortByKey([i \in 1..Len(entries) |->
                      <<Lower(entries[i].display_name), entries[i]>>]))

\* rom_files.py:165-214
list_dirs_links(page) == sort_by_display(dir_entries(page, Len(page)))

\* rom_files.py:216-253
list_files_links(page) == sort_by_display(file_entries(page, Len(page)))

NotParsed == [called |-> FALSE, directories |-> <<>>, files |-> <<>>]

(***************************************************************************)
(* The parsers: each browser parses the page that was fetched.             *)
(***************************************************************************)
ParseInit ==
  /\ index \in PagesUpTo(MaxIndexLen)
  /\ rb_parsed = NotParsed
  /\ fb_parsed = NotParsed

\* ROMBrowser.browse_directory, rom_browser.py:435
RBParse ==
  /\ ~rb_parsed.called
  /\ rb_parsed' = [called |-> TRUE,
                   directories |-> parse_index(index).directories,
                   files |-> parse_index(index).files]
  /\ UNCHANGED <<index, fb_parsed, exceptParse>>

\* ROMFilesBrowser.browse_directory, rom_files.py:394-395
FBParse ==
  /\ ~fb_parsed.called
  /\ fb_parsed' = [called |-> TRUE,
                   directories |-> list_dirs_links(index),
                   files |-> list_files_links(index)]
  /\ UNCHANGED <<index, rb_parsed, exceptParse>>


(***************************************************************************)
(* ROMDownloader: the archive and the files of the model.                  *)
(***************************************************************************)
\* rom_downloader.py:40: base_url_redump, without its trailing slash, as
\* one token
BaseTok == "https://myrient.erista.me/files/Redump"
base_url_redump == <<BaseTok, "/">>

\* the platform of the model ("p") and its index URL,
\* rom_downloader.py:368
platform_url == base_url_redump \o quote(<<"p">>) \o <<"/">>

\* the file URLs a queue file is generated from (what ROMBrowser.add_to_queue
\* writes: the directory URL and the quoted file name)
QueueUrls ==
  { platform_url \o <<"a", ".", "7", "z">>,
    platform_url \o <<"a", "%", "2", "0", "b">> }

QueueLists == UNION {[1..k -> QueueUrls] : k \in 0..MaxQueueLen}

\* the files that may be in the download directory before the first session
InitialFiles == { <<"a", ".", "7", "z">> }

\* the index pages the platform URL may serve
PlatformPages ==
  { << Anchor(<<".", ".", "/">>), Anchor(<<"b", ".", "7", "z">>),
       Anchor(<<"a", ".", "7", "z">>), Anchor(<<"a">>) >>,
    << Anchor(<<"a", "%", "2", "0", "b">>), Anchor(<<"a", "/">>) >> }

\* a value of type Optional[int]: None or an integer
None == [is_none |-> TRUE, value |-> 0]
Num(k) == [is_none |-> FALSE, value |-> k]

\* `if v:` on an Optional[int]
Truthy(v) == ~v.is_none /\ v.value # 0

\* max_files of download_platform_roms
MaxFilesArgs == {None} \cup {Num(k) : k \in -1..2}

\* rom_downloader.py:284
rom_extensions ==
  { <<".", "z", "i", "p">>, <<".", "7", "z">>, <<".", "r", "a", "r">>,
    <<".", "i", "s", "o">>, <<".", "b", "i", "n">>, <<".", "c", "u", "e">>,
    <<".", "i", "m", "g">>, <<".", "m", "d", "f">>, <<".", "m", "d", "s">> }

\* pathlib: Path(href).suffix of an href that does not end in '/'
PathSuffix(href) ==
  LET name == LastSegment(href)
      dots == {i \in 1..Len(name) : name[i] = "."}
      last == CHOOSE i \in dots : \A j \in dots : j <= i
  IN  IF dots # {} /\ 1 < last /\ last < Len(name)
      THEN SubSeq(name, last, Len(name)) ELSE <<>>

\* rom_downloader.py:286-295: the loop of parse_platform_index
RECURSIVE rom_entries(_, _)
rom_entries(page, n) ==
  IF n = 0 THEN <<>>
  ELSE LET href == page[n].href
           rest == rom_entries(page, n - 1)
       IN  IF EndsWith(href, <<"/">>) \/ StartsWith(href, <<"h", "t", "t", "p">>)
           THEN rest
           ELSE IF Lower(PathSuffix(href)) \in rom_extensions
                THEN Append(rest, unquote(href))
                ELSE rest

\* rom_downloader.py:268-302
parse_platform_index(page) == sort_str(rom_entries(page, Len(page)))

\* rom_downloader.py:383-384: if max_files: rom_files = rom_files[:max_files]
limit_files(rom_files, max_files) ==
  IF Truthy(max_files)
  THEN SliceTo(rom_files, max_files.value) ELSE rom_files

\* rom_downloader.py:391-392: the calls of the platform loop
platform_items(rom_files) ==
  [i \in 1..Len(rom_files) |->
     [url |-> platform_url \o quote(rom_files[i]), filename |-> rom_files[i]]]

\* rom_downloader.py:410-411
read_queue(file) == read_lines(file.text)

\* rom_downloader.py:422-424: the calls of the queue loop
queue_items_of(urls) ==
  [i \in 1..Len(urls) |->
     [url |-> urls[i], filename |-> unquote(LastSegment(urls[i]))]]

\* Path.exists() of download_dir / filename: the directory itself for an
\* empty name, '.' and '..'; else a file of the directory
path_exists(files, filename) ==
  \/ filename \in {<<>>, <<".">>, <<".", ".">>}
  \/ filename \in files

ZeroStats ==
  [total_files |-> 0, downloaded_files |-> 0, failed_files |-> 0,
   skipped_files |-> 0, total_size |-> 0, downloaded_size |-> 0]

NoFile == [exists |-> FALSE, text |-> <<>>]
FileOf(text) == [exists |-> TRUE, text |-> text]

NoCall == [active |-> FALSE, url |-> <<>>, filename |-> <<>>, requests |-> 0,
           before |-> ZeroStats, repeat |-> FALSE, existed |-> FALSE,
           result |-> "none"]

DlModes == {"interactive", "queue", "platform"}

\* ROMDownloader.__init__ and the dispatch of main()
NewSession(mode) ==
  /\ download_stats' = ZeroStats
  /\ dl_mode' = mode
  /\ dl_pc' = IF mode = "interactive" THEN "menu" ELSE "start"
  /\ batch_kind' = "none"
  /\ batch_items' = <<>>
  /\ batch_i' = 0
  /\ df_written' = 0
  /\ g_batch0' = [stats |-> ZeroStats, queue |-> NoFile,
                  max_files |-> None, rom_files |-> <<>>,
                  resumes |-> dl_pc = "dead" /\ batch_kind = "queue"]
  /\ g_attempts' = <<>>
  /\ g_call' = NoCall

(***************************************************************************)
(* ROMDownloader: the steps of a session.  Writing the log is left out:    *)
(* log_message is taken never to raise.                                    *)
(***************************************************************************)
DlInit ==
  /\ queue_file \in {NoFile} \cup {FileOf(write_lines(l)) : l \in QueueLists}
  /\ dl_files \in SUBSET InitialFiles
  /\ dl_partial = {}
  /\ download_stats = ZeroStats
  /\ dl_mode \in DlModes
  /\ dl_pc = (IF dl_mode = "interactive" THEN "menu" ELSE "start")
  /\ batch_kind = "none"
  /\ batch_items = <<>>
  /\ batch_i = 0
  /\ df_written = 0
  /\ n_calls = 0
  /\ g_batch0 = [stats |-> ZeroStats, queue |-> NoFile,
                  max_files |-> None, rom_files |-> <<>>,
                  resumes |-> FALSE]
  /\ g_attempts = <<>>
  /\ g_call = NoCall
  /\ g_succeeded = {}

\* where control is after a batch function returns: main_menu's loop
\* (rom_downloader.py:460) or show_download_stats and the end of main()
AfterBatch == IF dl_mode = "interactive" THEN "menu" ELSE "ended"

\* a batch may be started: main() of --queue / --platform, or a menu choice
MayStart(mode) ==
  \/ dl_pc = "start" /\ dl_mode = mode
  \/ dl_pc = "menu"

\* the batches the model starts are those whose calls it can follow
WithinCalls == n_calls + Len(batch_items') <= MaxCalls

\* a faulty download_from_queue, which clears the queue before its loop
download_from_queue_unlinks_first ==
  LET urls == read_queue(queue_file) IN
  IF ~queue_file.exists \/ urls = <<>>
  THEN /\ dl_pc' = AfterBatch
       /\ UNCHANGED <<queue_file, download_stats, batch_kind, batch_items,
                      batch_i, g_batch0, g_attempts>>
  ELSE /\ download_stats' = [download_stats EXCEPT !.total_files = Len(urls)]
       /\ queue_file' = NoFile
       /\ batch_kind' = "queue"
       /\ batch_items' = queue_items_of(urls)
       /\ batch_i' = 1
       /\ dl_pc' = "loop"
       /\ g_batch0' = [stats |-> download_stats, queue |-> queue_file,
                        max_files |-> None, rom_files |-> <<>>,
                        resumes |-> g_batch0.resumes]
       /\ g_attempts' = <<>>

\* rom_downloader.py:403-419: download_from_queue up to its loop
download_from_queue_begin ==
  LET urls == read_queue(queue_file) IN
  IF ~queue_file.exists \/ urls = <<>>
  THEN /\ dl_pc' = AfterBatch
       /\ UNCHANGED <<queue_file, download_stats, batch_kind, batch_items,
                      batch_i, g_batch0, g_attempts>>
  ELSE /\ download_stats' = [download_stats EXCEPT !.total_files = Len(urls)]
       /\ queue_file' = queue_file
       /\ batch_kind' = "queue"
       /\ batch_items' = queue_items_of(urls)
       /\ batch_i' = 1
       /\ dl_pc' = "loop"
       /\ g_batch0' = [stats |-> download_stats, queue |-> queue_file,
                        max_files |-> None, rom_files |-> <<>>,
                        resumes |-> g_batch0.resumes]
       /\ g_attempts' = <<>>

DownloadFromQueue ==
  /\ MayStart("queue")
  /\ download_from_queue_begin
  /\ WithinCalls
  /\ UNCHANGED <<dl_files, dl_partial, dl_mode, df_written, n_calls, g_call,
                 g_succeeded, exceptDl>>

\* rom_downloader.py:371-373: download_index failed, download_platform_roms
\* returns
PlatformIndexFails ==
  /\ MayStart("platform")
  /\ dl_pc' = AfterBatch
  /\ UNCHANGED <<varsFiles, download_stats, dl_mode, batch_kind, batch_items,
                 batch_i, df_written, n_calls, g_batch0, g_attempts,
                 g_call, g_succeeded, exceptDl>>

\* rom_downloader.py:376-388: download_platform_roms from the parsed index
\* up to its loop
download_platform_roms_begin(page, max_files) ==
  LET rom_files == parse_platform_index(page)
      limited == limit_files(rom_files, max_files)
  IN  IF rom_files = <<>>
      THEN /\ dl_pc' = AfterBatch
           /\ UNCHANGED <<download_stats, batch_kind, batch_items, batch_i,
                          g_batch0, g_attempts>>
      ELSE /\ download_stats' =
                [download_stats EXCEPT !.total_files = Len(limited)]
           /\ batch_kind' = "platform"
           /\ batch_items' = platform_items(limited)
           /\ batch_i' = 1
           /\ dl_pc' = "loop"
           /\ g_batch0' = [stats |-> download_stats, queue |-> queue_file,
                           max_files |-> max_files, rom_files |-> rom_files,
                           resumes |-> FALSE]
           /\ g_attempts' = <<>>

\* main() passes any --max-files; download_by_platform (rom_downloader.py:
\* 497-508) only None or a positive number
DownloadPlatformRoms ==
  /\ MayStart("platform")
  /\ \E page \in PlatformPages, max_files \in MaxFilesArgs :
        /\ dl_pc = "menu" => (max_files.is_none \/ max_files.value > 0)
        /\ download_platform_roms_begin(page, max_files)
  /\ WithinCalls
  /\ UNCHANGED <<varsFiles, dl_mode, df_written, n_calls, g_call,
                 g_succeeded, exceptDl>>

InLoop == dl_pc = "loop" /\ batch_i <= Len(batch_items)

Item == batch_items[batch_i]

\* download_file returns to the loop, which sleeps and goes on
\* (rom_downloader.py:396-401, 428-431)
Returned(outcome, existed) ==
  /\ g_attempts' = Append(g_attempts, [url |-> Item.url,
                                       filename |-> Item.filename,
                                       existed |-> existed,
                                       outcome |-> outcome])
  /\ batch_i' = batch_i + 1
  /\ dl_pc' = "loop"

\* rom_downloader.py:321-324: the file exists
download_file_skip ==
  /\ download_stats' = [download_stats EXCEPT !.skipped_files = @ + 1]
  /\ g_call' = [active |-> FALSE, url |-> Item.url, filename |-> Item.filename,
                requests |-> 0, before |-> download_stats,
                repeat |-> <<Item.url, Item.filename>> \in g_succeeded,
                existed |-> path_exists(dl_files, Item.filename),
                result |-> "True"]
  /\ g_succeeded' = g_succeeded \cup {<<Item.url, Item.filename>>}
  /\ Returned("skipped", path_exists(dl_files, Item.filename))
  /\ UNCHANGED <<varsFiles, df_written>>

\* rom_downloader.py:327-330: get_file_size (a HEAD request; 0 when it
\* fails or names no length) and total_size
download_file_head ==
  /\ \E file_size \in {0, BodyChunks} :
        download_stats' = [download_stats EXCEPT !.total_size = @ + file_size]
  /\ g_call' = [active |-> TRUE, url |-> Item.url, filename |-> Item.filename,
                requests |-> 1, before |-> download_stats,
                repeat |-> <<Item.url, Item.filename>> \in g_succeeded,
                existed |-> path_exists(dl_files, Item.filename),
                result |-> "none"]
  /\ dl_pc' = "df_get"
  /\ UNCHANGED <<varsFiles, df_written, batch_i, g_attempts, g_succeeded>>

\* a faulty download_file, which does not look for the file
download_file_unchecked == download_file_head

\* rom_downloader.py:315-330: download_file is called for the next item
download_file_begin ==
  IF path_exists(dl_files, Item.filename)
  THEN download_file_skip
  ELSE download_file_head

DownloadFileBegin ==
  /\ InLoop
  /\ download_file_begin
  /\ n_calls' = n_calls + 1
  /\ UNCHANGED <<dl_mode, batch_kind, batch_items, g_batch0, exceptDl>>

\* a faulty download_file, whose exception leaves the loop of the batch
download_file_raises ==
  /\ download_stats' = [download_stats EXCEPT !.failed_files = @ + 1]
  /\ g_attempts' = Append(g_attempts, [url |-> Item.url,
                                       filename |-> Item.filename,
                                       existed |-> g_call.existed,
                                       outcome |-> "failed"])
  /\ batch_i' = Len(batch_items) + 1
  /\ dl_pc' = "loop"

\* rom_downloader.py:361-364: the except branch
download_file_failed ==
  /\ download_stats' = [download_stats EXCEPT !.failed_files = @ + 1]
  /\ Returned("failed", g_call.existed)

\* rom_downloader.py:337-341: the GET, raise_for_status or open() raises
DownloadFileGetFails ==
  /\ dl_pc = "df_get"
  /\ download_file_failed
  /\ g_call' = [g_call EXCEPT !.active = FALSE, !.requests = @ + 1,
                              !.result = "False"]
  /\ UNCHANGED <<varsFiles, dl_mode, batch_kind, batch_items, df_written,
                 n_calls, g_batch0, g_succeeded, exceptDl>>

\* rom_downloader.py:337-341: the GET answers and open(file_path, 'wb')
\* creates the file
DownloadFileOpen ==
  /\ dl_pc = "df_get"
  /\ ~Contains(Item.filename, <<"/">>)
  /\ dl_files' = dl_files \cup {Item.filename}
  /\ dl_partial' = dl_partial \cup {Item.filename}
  /\ df_written' = 0
  /\ dl_pc' = "df_write"
  /\ g_call' = [g_call EXCEPT !.requests = @ + 1]
  /\ UNCHANGED <<queue_file, download_stats, dl_mode, batch_kind, batch_items,
                 batch_i, n_calls, g_batch0, g_attempts,
                 g_succeeded, exceptDl>>

\* rom_downloader.py:342-345: one chunk is written
DownloadFileWriteChunk ==
  /\ dl_pc = "df_write"
  /\ df_written < BodyChunks
  /\ df_written' = df_written + 1
  /\ UNCHANGED <<varsFiles, download_stats, dl_mode, dl_pc, batch_kind,
                 batch_items, batch_i, n_calls, g_batch0,
                 g_attempts, g_call, g_succeeded, exceptDl>>

\* rom_downloader.py:342-345, 361-364: reading or writing a chunk raises;
\* the with block closes the file, which stays as it is
DownloadFileWriteFails ==
  /\ dl_pc = "df_write"
  /\ df_written < BodyChunks
  /\ download_file_failed
  /\ g_call' = [g_call EXCEPT !.active = FALSE, !.result = "False"]
  /\ UNCHANGED <<varsFiles, dl_mode, batch_kind, batch_items, df_written,
                 n_calls, g_batch0, g_succeeded, exceptDl>>

\* rom_downloader.py:352-359: the body is written, the file closed
download_file_done ==
  /\ download_stats' = [download_stats EXCEPT
                          !.downloaded_files = @ + 1,
                          !.downloaded_size = @ + df_written]
  /\ dl_partial' = dl_partial \ {Item.filename}
  /\ Returned("downloaded", g_call.existed)

DownloadFileDone ==
  /\ dl_pc = "df_write"
  /\ df_written = BodyChunks
  /\ download_file_done
  /\ g_call' = [g_call EXCEPT !.active = FALSE, !.result = "True"]
  /\ g_succeeded' = g_succeeded \cup {<<Item.url, Item.filename>>}
  /\ UNCHANGED <<queue_file, dl_files, dl_mode, batch_kind, batch_items,
                 df_written, n_calls, g_batch0, exceptDl>>

\* a faulty download_from_queue, which keeps the queue file
batch_end_keeps_queue == queue_file' = queue_file

\* a faulty download_from_queue, which keeps the queue file for a later run
\* when a download of the batch failed
batch_end_unless_failed ==
  queue_file' = IF /\ batch_kind = "queue"
                   /\ download_stats.failed_files = g_batch0.stats.failed_files
                THEN NoFile ELSE queue_file

\* rom_downloader.py:433-435: after the loop of download_from_queue;
\* download_platform_roms ends with its loop
batch_end ==
  queue_file' = IF batch_kind = "queue" THEN NoFile ELSE queue_file

BatchEnd ==
  /\ dl_pc = "loop"
  /\ batch_i > Len(batch_items)
  /\ batch_end
  /\ dl_pc' = "batch_done"
  /\ UNCHANGED <<dl_files, dl_partial, varsDlButPc, exceptDl>>

\* the batch function returns and its locals are gone; without a menu the
\* statistics are shown and the process, with its memory, ends
BatchReturn ==
  /\ dl_pc = "batch_done"
  /\ dl_pc' = AfterBatch
  /\ batch_kind' = "none"
  /\ batch_items' = <<>>
  /\ batch_i' = 0
  /\ g_batch0' = [stats |-> ZeroStats, queue |-> NoFile,
                  max_files |-> None, rom_files |-> <<>>,
                  resumes |-> FALSE]
  /\ g_attempts' = <<>>
  /\ g_call' = NoCall
  /\ download_stats' = IF AfterBatch = "ended" THEN ZeroStats
                       ELSE download_stats
  /\ UNCHANGED <<varsFiles, dl_mode, df_written, n_calls, g_succeeded,
                 exceptDl>>

\* rom_downloader.py:483-484: choice 6; the statistics are shown and the
\* process, with its memory, ends
MenuQuit ==
  /\ dl_pc = "menu"
  /\ dl_pc' = "ended"
  /\ download_stats' = ZeroStats
  /\ UNCHANGED <<varsFiles, dl_mode, batch_kind, batch_items, batch_i,
                 df_written, n_calls, g_batch0, g_attempts,
                 g_call, g_succeeded, exceptDl>>

\* Ctrl-C (KeyboardInterrupt is no Exception: neither download_file nor
\* download_from_queue catches it) or the process is killed, inside a batch.
\* The memory of the process is gone; the kind of batch it died in and the
\* queue file that batch started from are kept for the properties.
Interrupt ==
  /\ dl_pc \in {"loop", "df_get", "df_write"}
  /\ dl_pc' = "dead"
  /\ download_stats' = ZeroStats
  /\ batch_items' = <<>>
  /\ batch_i' = 0
  /\ df_written' = 0
  /\ g_batch0' = [g_batch0 EXCEPT !.stats = ZeroStats]
  /\ g_attempts' = <<>>
  /\ g_call' = NoCall
  /\ UNCHANGED <<varsFiles, dl_mode, batch_kind, n_calls, g_succeeded,
                 exceptDl>>

\* the script is run again
Restart ==
  /\ dl_pc \in {"ended", "dead"}
  /\ \E mode \in DlModes : NewSession(mode)
  /\ UNCHANGED <<varsFiles, n_calls, g_succeeded, exceptDl>>

NextDl ==
  \/ DownloadFromQueue \/ PlatformIndexFails \/ DownloadPlatformRoms
  \/ DownloadFileBegin \/ DownloadFileGetFails \/ DownloadFileOpen
  \/ DownloadFileWriteChunk \/ DownloadFileWriteFails \/ DownloadFileDone
  \/ BatchEnd \/ BatchReturn \/ MenuQuit \/ Interrupt \/ Restart

(***************************************************************************)
(* ROMBrowser: the download queue and its file.  Opening, reading and      *)
(* writing the file are taken to succeed.                                  *)
(***************************************************************************)
Browsers == {"ROMBrowser", "ROMFilesBrowser"}

\* items a caller may have put in download_queue: names with inner and
\* outer blanks, empty ones, ones with a line end inside or at the end
QueueItemSamples ==
  { <<"a">>, <<"b">>, <<"a", " ", "b">>, <<" ", "a">>, <<"a", " ">>, <<>>,
    <<"\t">>, <<"a", "\n", "b">>, <<"a", "\r", "b">>, <<"a", "\n">> }

SampleQueues == UNION {[1..k -> QueueItemSamples] : k \in 0..MaxQueueLen}

\* rom_browser.py:102-109
save_download_queue(queue) == FileOf(write_lines(queue))

\* rom_browser.py:90-100
load_download_queue(file) ==
  IF file.exists THEN read_lines(file.text) ELSE <<>>

QueueInit ==
  /\ download_queue \in SampleQueues
  /\ queue_file = NoFile
  /\ q_pc = "idle"
  /\ g_saved = <<>>

SaveDownloadQueue ==
  /\ queue_file' = save_download_queue(download_queue)
  /\ g_saved' = download_queue
  /\ q_pc' = "saved"
  /\ UNCHANGED <<download_queue, exceptQueue>>

LoadDownloadQueue ==
  /\ download_queue' = load_download_queue(queue_file)
  /\ q_pc' = IF q_pc = "saved" THEN "reloaded" ELSE "loaded"
  /\ UNCHANGED <<queue_file, g_saved, exceptQueue>>

\* rom_browser.py:416-423, for an item not in the queue
AddToQueue ==
  /\ Len(download_queue) < MaxQueueLen
  /\ \E item \in QueueUrls :
        /\ item \notin Range(download_queue)
        /\ download_queue' = Append(download_queue, item)
  /\ queue_file' = save_download_queue(download_queue')
  /\ g_saved' = download_queue'
  /\ q_pc' = "saved"
  /\ UNCHANGED exceptQueue

\* rom_browser.py:404-406: 'c' in show_download_queue
ClearQueue ==
  /\ download_queue # <<>>
  /\ download_queue' = <<>>
  /\ queue_file' = save_download_queue(download_queue')
  /\ g_saved' = download_queue'
  /\ q_pc' = "saved"
  /\ UNCHANGED exceptQueue

NextQueue ==
  SaveDownloadQueue \/ LoadDownloadQueue \/ AddToQueue \/ ClearQueue

(***************************************************************************)
(* The browsing history of the two browsers.  Writing the history file is  *)
(* taken to succeed.                                                       *)
(***************************************************************************)
DigitChars == <<"0", "1", "2", "3", "4", "5", "6", "7", "8", "9">>

\* the decimal digits of a natural number
RECURSIVE Digits(_)
Digits(n) ==
  LET d == DigitChars[(n % 10) + 1]
  IN  IF n < 10 THEN <<d>> ELSE Append(Digits(n \div 10), d)

\* the URL of the k-th directory of the archive
HistoryUrl(k) == base_url_redump \o Digits(k) \o <<"/">>

\* rom_browser.py:116, rom_files.py:92
max_history ==
  IF nav_browser = "ROMBrowser" THEN RBHistoryMax ELSE FBHistoryMax

\* s[-n:] of a list, n > 0
LastN(s, n) == IF Len(s) > n THEN SubSeq(s, Len(s) - n + 1, Len(s)) ELSE s

\* a faulty add_to_history, which keeps the first entries
add_to_history_keeps_first(h, url, max) ==
  IF url \in Range(h) THEN h
  ELSE LET a == Append(h, url)
       IN  IF Len(a) > max THEN SubSeq(a, 1, max) ELSE a

\* rom_browser.py:111-117, rom_files.py:87-93: self.history after the call
add_to_history(h, url, max) ==
  IF url \in Range(h) THEN h
  ELSE LET a == Append(h, url)
       IN  IF Len(a) > max THEN LastN(a, max) ELSE a

\* rom_browser.py:81-88, rom_files.py:77-85
save_history(h) == FileOf(write_lines(h))

\* add_to_history with its save_history, which runs when the URL is new
AddToHistoryCall(url) ==
  /\ history' = add_to_history(history, url, max_history)
  /\ history_file' = IF url \in Range(history) THEN history_file
                     ELSE save_history(history')

HistoryInit ==
  /\ nav_browser \in Browsers
  /\ history = <<>>
  /\ history_file = NoFile
  /\ g_appended = <<>>
  /\ g_hist_url = <<>>

\* the URLs visited next: one never visited, the oldest and the newest of
\* the history, the one dropped last
HistoryVisits ==
  {HistoryUrl(Cardinality(Range(g_appended)) + 1)}
    \cup (IF history = <<>> THEN {} ELSE {history[1], history[Len(history)]})
    \cup (IF Len(g_appended) > Len(history)
          THEN {g_appended[Len(g_appended) - Len(history)]} ELSE {})

AddToHistory(browser) ==
  /\ nav_browser = browser
  /\ \E url \in HistoryVisits :
        /\ url \notin Range(history)
             => Len(g_appended) < max_history + MaxOverflow
        /\ AddToHistoryCall(url)
        /\ g_appended' = IF url \in Range(history) THEN g_appended
                         ELSE Append(g_appended, url)
        /\ g_hist_url' = url
  /\ UNCHANGED exceptHistory

\* ROMBrowser.add_to_history
RBAddToHistory == AddToHistory("ROMBrowser")

\* ROMFilesBrowser.add_to_history
FBAddToHistory == AddToHistory("ROMFilesBrowser")

NextHistory == RBAddToHistory \/ FBAddToHistory

(***************************************************************************)
(* The interactive sessions of ROMBrowser and ROMFilesBrowser.  A step is  *)
(* one answer of the user at a prompt of main_menu or browse_directory,    *)
(* with the dialogs it opens, or one download of an index.  The log and    *)
(* the files of the browser are taken to be writable; input() of a dialog  *)
(* other than get_user_choice is taken to return a line.                   *)
(***************************************************************************)
\* rom_files.py:38: root_url, without its trailing slash, as one token
FilesTok == "https://myrient.erista.me/files"
root_url == <<FilesTok, "/">>

\* rom_browser.py:36, without its trailing slash, as one token
NoIntroTok == "https://myrient.erista.me/files/No-Intro"
base_url_noin == <<NoIntroTok, "/">>

\* the index pages a URL may serve
NavRawPages ==
  { <<>>,
    << Anchor(<<".", ".", "/">>), Anchor(<<"a", "/">>) >>,
    << Anchor(<<"b">>) >>,
    << Anchor(<<"a", "/">>), Anchor(<<"a">>), Anchor(<<"b">>) >> }

\* input() raises EOFError or KeyboardInterrupt
EOFInput == <<"EOF">>

\* what the user types at a prompt of get_user_choice
NavInputs ==
  { <<>>, <<" ">>, <<"q">>, <<"Q", " ">>, <<"q", "u", "i", "t">>,
    <<"e", "x", "i", "t">>, <<"b">>, <<"h">>, <<"f">>, <<"d">>, <<"x">>,
    <<"0">>, <<"1">>, <<"3">>, EOFInput }

\* what the user types as a filter text
FilterTexts == { <<>>, <<"a">>, <<"z">> }

\* what the user types at "Enter filter text" (rom_files.py:412, 454)
FilterPromptTexts == FilterTexts \cup { <<"B">> }

\* int(s) succeeds: an optional sign and decimal digits
IsInt(s) ==
  LET body == IF s # <<>> /\ s[1] \in {"+", "-"} THEN Tail(s) ELSE s
  IN  body # <<>> /\ \A i \in 1..Len(body) : body[i] \in Range(DigitChars)

RECURSIVE NatOf(_)
NatOf(body) ==
  IF body = <<>> THEN 0
  ELSE 10 * NatOf(SubSeq(body, 1, Len(body) - 1))
         + (CHOOSE d \in 0..9 : DigitChars[d + 1] = body[Len(body)])

\* int(s), for IsInt(s)
IntOf(s) ==
  IF s[1] = "-" THEN 0 - NatOf(Tail(s))
  ELSE IF s[1] = "+" THEN NatOf(Tail(s)) ELSE NatOf(s)

\* the command a stripped answer names (rom_browser.py:239-251,
\* rom_files.py:316-324)
choice_command(browser, choice) ==
  LET c == Lower(choice) IN
  IF c \in {<<"q">>, <<"q", "u", "i", "t">>, <<"e", "x", "i", "t">>}
  THEN "quit"
  ELSE IF c \in {<<"h">>, <<"h", "e", "l", "p">>} THEN "help"
  ELSE IF c \in {<<"b">>, <<"b", "a", "c", "k">>} THEN "back"
  ELSE IF c \in {<<"f">>, <<"f", "i", "l", "t", "e", "r">>} THEN "filter"
  ELSE IF /\ browser = "ROMBrowser"
          /\ c \in {<<"d">>, <<"d", "o", "w", "n", "l", "o", "a", "d">>}
       THEN "download"
  ELSE "none"

\* rom_browser.py:230-269, rom_files.py:307-342: the value returned
get_user_choice(browser, input, max_choice) ==
  IF input = EOFInput THEN Num(-1)
  ELSE LET choice == Strip(input)
           command == choice_command(browser, choice)
       IN  IF choice = <<>> THEN None
           ELSE IF command = "quit" THEN Num(-1)
           ELSE IF command = "help" THEN None
           ELSE IF command = "back" THEN Num(-2)
           ELSE IF command = "filter"
                THEN (IF browser = "ROMBrowser" THEN None ELSE Num(-3))
           ELSE IF command = "download" THEN None
           ELSE IF /\ IsInt(choice)
                   /\ 1 <= IntOf(choice) /\ IntOf(choice) <= max_choice
                THEN Num(IntOf(choice))
           ELSE None

\* what the answer is: the end of input, a command, a selection, or an
\* invalid answer (an empty line, an unknown string, a number out of range)
input_event(browser, input, max_choice) ==
  LET choice == Strip(input)
      command == choice_command(browser, choice)
  IN  IF input = EOFInput THEN "eof"
      ELSE IF choice = <<>> THEN "invalid"
      ELSE IF command # "none" THEN command
      ELSE IF get_user_choice(browser, input, max_choice).is_none
           THEN "invalid"
      ELSE "select"

\* rom_browser.py:197: the active lines of the filter file
filter_lines(file) ==
  SelectSeq(read_lines(file.text), LAMBDA l : ~StartsWith(l, <<"#">>))

\* rom_browser.py:190-208
apply_filters(file, items) ==
  IF ~file.exists THEN items
  ELSE SelectSeq(items, LAMBDA item :
         \A i \in 1..Len(filter_lines(file)) :
            ~Contains(Lower(item), Lower(filter_lines(file)[i])))

\* rom_browser.py:340-365: the filter file after add_filter
add_filter(file, filter_text) ==
  IF filter_text = <<>> THEN file
  ELSE IF file.exists /\ filter_text \in Range(read_lines(file.text))
       THEN file
  ELSE FileOf(file.text \o filter_text \o <<"\n">>)

\* rom_browser.py:298-317: view, add or back (the external editor of
\* choice 3 is left out)
manage_filters ==
  \E choice \in {<<"1">>, <<"2">>, <<"4">>}, filter_text \in FilterTexts :
     filter_file' = IF choice = <<"2">>
                    THEN add_filter(filter_file, Strip(filter_text))
                    ELSE filter_file

\* rom_browser.py:387-414
show_download_queue ==
  IF download_queue = <<>> THEN UNCHANGED <<download_queue, queue_file>>
  ELSE \E choice \in {<<"c">>, <<"s">>, <<"b">>} :
          /\ download_queue' = IF choice = <<"c">> THEN <<>>
                               ELSE download_queue
          /\ queue_file' = IF choice = <<"b">> THEN queue_file
                           ELSE save_download_queue(download_queue')

\* rom_browser.py:526-546
switch_dataset ==
  \E choice \in {<<"1">>, <<"2">>, <<"3">>} :
     current_url' = IF choice = <<"1">> THEN base_url_redump
                    ELSE IF choice = <<"2">> THEN base_url_noin
                    ELSE current_url

\* rom_browser.py:416-423
add_to_queue(item) ==
  IF item \in Range(download_queue)
  THEN UNCHANGED <<download_queue, queue_file>>
  ELSE /\ Len(download_queue) < MaxQueueLen
       /\ download_queue' = Append(download_queue, item)
       /\ queue_file' = save_download_queue(download_queue')

\* rom_files.py:276-305: the file exists, or the download fails before the
\* file is created, while it is written, or not at all
fb_download_file(filename) ==
  IF path_exists(dl_files, filename) THEN UNCHANGED <<dl_files, dl_partial>>
  ELSE \E outcome \in {"failed", "partial", "done"} :
          /\ dl_files' = IF outcome = "failed" THEN dl_files
                         ELSE dl_files \cup {filename}
          /\ dl_partial' = IF outcome = "partial"
                           THEN dl_partial \cup {filename} ELSE dl_partial

\* rom_browser.py:488-509, rom_files.py:482-507
handle_file_selection(base_url, file) ==
  IF nav_browser = "ROMBrowser"
  THEN /\ \E choice \in {<<"1">>, <<"2">>, <<"4">>} :
             IF choice = <<"1">> THEN add_to_queue(base_url \o quote(file))
             ELSE UNCHANGED <<download_queue, queue_file>>
       /\ UNCHANGED <<dl_files, dl_partial>>
  ELSE /\ \E choice \in {<<"1">>, <<"3">>, <<"4">>} :
             IF choice = <<"3">> THEN fb_download_file(file.display_name)
             ELSE UNCHANGED <<dl_files, dl_partial>>
       /\ UNCHANGED <<download_queue, queue_file>>

\* a faulty filter_items, which compares without lower()
filter_items_case_sensitive(items, filter_text) ==
  IF filter_text = <<>> THEN items
  ELSE SelectSeq(items, LAMBDA e : Contains(e.display_name, filter_text))

\* rom_files.py:370-382
filter_items(items, filter_text) ==
  IF filter_text = <<>> THEN items
  ELSE SelectSeq(items, LAMBDA e :
         Contains(Lower(e.display_name), Lower(filter_text)))

\* rom_browser.py:460, rom_files.py:423, 436
new_url(url, selected_dir) ==
  IF nav_browser = "ROMBrowser" THEN url \o quote(selected_dir) \o <<"/">>
  ELSE url \o urlencode(selected_dir.href)

NoLocals == [directories |-> <<>>, files |-> <<>>, filter_text |-> <<>>,
             shown |-> <<>>]

NoNav == [event |-> "none", pc |-> "menu", stack |-> <<>>,
          history |-> <<>>, queue |-> <<>>, locals |-> NoLocals,
          selected |-> <<>>]

\* the step that is taken, and the state it is taken in
Record(event) ==
  [event |-> event, pc |-> nav_pc, stack |-> nav_stack,
   history |-> history, queue |-> download_queue, locals |-> NoLocals,
   selected |-> <<>>]

\* a step that selects an entry of a list: the lists and the filter text
\* of the step, and selected_dir or selected_file
RecordSelection(event, selected) ==
  [Record(event) EXCEPT !.locals = nav_locals, !.selected = <<selected>>]

\* the url of the innermost browse_directory
Url == nav_stack[Len(nav_stack)]

\* what a step of the session may change besides where the session is
NavEffects == <<index, queue_file, dl_files, dl_partial, download_queue,
                filter_file, current_url, nav_origin>>

\* browse_directory(url) is called: rom_browser.py:425-427,
\* rom_files.py:384-386
Call(url) ==
  /\ Len(nav_stack) < MaxDepth
  /\ nav_stack' = Append(nav_stack, url)
  /\ AddToHistoryCall(url)
  /\ nav_locals' = NoLocals
  /\ nav_pc' = "fetch"

\* `continue`: the loop of browse_directory starts over
Continue ==
  /\ nav_pc' = "fetch"
  /\ nav_locals' = NoLocals
  /\ UNCHANGED <<nav_stack, history, history_file>>

\* a faulty `return True`, after which every caller returns too
ReturnTrueToMenu ==
  /\ nav_stack' = <<>>
  /\ nav_locals' = NoLocals
  /\ nav_pc' = "menu"
  /\ UNCHANGED <<history, history_file>>

\* `return True`: the caller's loop goes on (rom_browser.py:462-464), or
\* main_menu's
ReturnTrue ==
  /\ nav_stack' = SubSeq(nav_stack, 1, Len(nav_stack) - 1)
  /\ nav_locals' = NoLocals
  /\ nav_pc' = IF Len(nav_stack) > 1 THEN "fetch" ELSE "menu"
  /\ UNCHANGED <<history, history_file>>

\* `return False`: every caller returns False too (rom_browser.py:462-463);
\* main_menu breaks (rom_browser.py:563-564, rom_files.py:523-524, 531-532),
\* show_history returns (rom_files.py:567-568)
ReturnFalse ==
  /\ nav_stack' = <<>>
  /\ nav_locals' = NoLocals
  /\ nav_pc' = IF nav_origin = "history" THEN "menu" ELSE "ended"
  /\ UNCHANGED <<history, history_file>>

\* a faulty browse_directory, for which an index without items is an error
FilesSectionEmptyIsError(directories, files) ==
  IF files # <<>>
  THEN /\ nav_pc' = "files"
       /\ nav_locals' = [directories |-> directories, files |-> files,
                         filter_text |-> <<>>, shown |-> <<>>]
       /\ UNCHANGED <<nav_stack, history, history_file>>
  ELSE ReturnFalse

\* rom_browser.py:466-486, rom_files.py:442-480: the files are listed, or
\* there is nothing to list
FilesSection(directories, files) ==
  IF files # <<>>
  THEN /\ nav_pc' = "files"
       /\ nav_locals' = [directories |-> directories, files |-> files,
                         filter_text |-> <<>>, shown |-> <<>>]
       /\ UNCHANGED <<nav_stack, history, history_file>>
  ELSE ReturnTrue

\* rom_browser.py:445-449, rom_files.py:400-406
ShowListing(directories, files) ==
  IF directories # <<>>
  THEN /\ nav_pc' = "dirs"
       /\ nav_locals' = [directories |-> directories, files |-> files,
                         filter_text |-> <<>>, shown |-> <<>>]
       /\ UNCHANGED <<nav_stack, history, history_file>>
  ELSE FilesSection(directories, files)

\* the session stays where it is
Stay == UNCHANGED <<nav_pc, nav_stack, nav_locals, history, history_file>>

NavInit ==
  /\ nav_browser \in Browsers
  /\ history = <<>>
  /\ history_file = NoFile
  /\ download_queue = <<>>
  /\ current_url = (IF nav_browser = "ROMBrowser" THEN base_url_redump
                    ELSE root_url)
  /\ filter_file = NoFile
  /\ nav_pc = "menu"
  /\ nav_stack = <<>>
  /\ nav_locals = NoLocals
  /\ nav_origin = "menu"
  /\ g_nav = NoNav

\* rom_browser.py:548-576
RBMainMenu ==
  /\ nav_browser = "ROMBrowser"
  /\ nav_pc = "menu"
  /\ g_nav' = Record("menu")
  /\ \E choice \in {<<"1">>, <<"2">>, <<"3">>, <<"4">>, <<"6">>, <<"x">>} :
        CASE choice = <<"1">> ->
               /\ Call(current_url)
               /\ UNCHANGED NavEffects
          [] choice = <<"2">> ->
               /\ switch_dataset
               /\ Stay
               /\ UNCHANGED <<index, queue_file, dl_files, dl_partial,
                              download_queue, filter_file, nav_origin>>
          [] choice = <<"3">> ->
               /\ manage_filters
               /\ Stay
               /\ UNCHANGED <<index, queue_file, dl_files, dl_partial,
                              download_queue, current_url, nav_origin>>
          [] choice = <<"4">> ->
               /\ show_download_queue
               /\ Stay
               /\ UNCHANGED <<index, dl_files, dl_partial, filter_file,
                              current_url, nav_origin>>
          [] choice = <<"6">> ->
               /\ nav_pc' = "ended"
               /\ UNCHANGED <<nav_stack, nav_locals, history, history_file>>
               /\ UNCHANGED NavEffects
          [] OTHER ->
               /\ Stay
               /\ UNCHANGED NavEffects
  /\ UNCHANGED exceptNav

\* rom_files.py:525-532: "Go to specific URL"
go_to_url ==
  \E answer \in { <<>>, <<"a", "/">> } :
     LET url == IF StartsWith(Strip(answer), <<"h", "t", "t", "p">>)
                THEN Strip(answer) ELSE root_url \o Strip(answer)
     IN  IF Strip(answer) = <<>>
         THEN Stay /\ UNCHANGED NavEffects
         ELSE /\ current_url' = url
              /\ nav_origin' = "menu"
              /\ Call(url)
              /\ UNCHANGED <<index, queue_file, dl_files, dl_partial,
                             download_queue, filter_file>>

\* rom_files.py:542-572
show_history ==
  IF history = <<>> THEN Stay /\ UNCHANGED NavEffects
  ELSE \E answer \in { <<"b">>, <<"1">>, <<"2">>, <<"x">> } :
          LET choice == Strip(answer) IN
          IF /\ Lower(choice) # <<"b">>
             /\ IsInt(choice)
             /\ 1 <= IntOf(choice) /\ IntOf(choice) <= Len(history)
          THEN /\ current_url' = history[IntOf(choice)]
               /\ nav_origin' = "history"
               /\ Call(history[IntOf(choice)])
               /\ UNCHANGED <<index, queue_file, dl_files, dl_partial,
                              download_queue, filter_file>>
          ELSE Stay /\ UNCHANGED NavEffects

\* rom_files.py:509-540
FBMainMenu ==
  /\ nav_browser = "ROMFilesBrowser"
  /\ nav_pc = "menu"
  /\ g_nav' = Record("menu")
  /\ \E choice \in {<<"1">>, <<"2">>, <<"3">>, <<"5">>, <<"x">>} :
        CASE choice = <<"1">> ->
               /\ Call(current_url)
               /\ nav_origin' = "menu"
               /\ UNCHANGED <<index, queue_file, dl_files, dl_partial,
                              download_queue, filter_file, current_url>>
          [] choice = <<"2">> -> go_to_url
          [] choice = <<"3">> -> show_history
          [] choice = <<"5">> ->
               /\ nav_pc' = "ended"
               /\ UNCHANGED <<nav_stack, nav_locals, history, history_file>>
               /\ UNCHANGED NavEffects
          [] OTHER ->
               /\ Stay
               /\ UNCHANGED NavEffects
  /\ UNCHANGED exceptNav

\* rom_browser.py:431-433, rom_files.py:390-392: download_index returns None
DownloadIndexFails ==
  /\ nav_pc = "fetch"
  /\ g_nav' = Record("fetch_failed")
  /\ ReturnFalse
  /\ UNCHANGED NavEffects
  /\ UNCHANGED exceptNav

\* rom_browser.py:431-449, rom_files.py:390-406: the index is downloaded
\* and parsed, and a list is shown
DownloadIndexOk ==
  /\ nav_pc = "fetch"
  /\ g_nav' = Record("fetch")
  /\ \E page \in NavRawPages :
        /\ index' = page
        /\ IF nav_browser = "ROMBrowser"
           THEN ShowListing(
                  apply_filters(filter_file, parse_index(page).directories),
                  apply_filters(filter_file, parse_index(page).files))
           ELSE ShowListing(list_dirs_links(page), list_files_links(page))
  /\ UNCHANGED <<queue_file, dl_files, dl_partial, download_queue,
                 filter_file, current_url, nav_origin>>
  /\ UNCHANGED exceptNav

\* the dialogs get_user_choice opens in ROMBrowser before it returns None
\* (rom_browser.py:246-251)
command_dialog(event) ==
  IF nav_browser = "ROMBrowser" /\ event = "filter"
  THEN manage_filters /\ UNCHANGED <<download_queue, queue_file>>
  ELSE IF nav_browser = "ROMBrowser" /\ event = "download"
       THEN show_download_queue /\ UNCHANGED filter_file
  ELSE UNCHANGED <<filter_file, download_queue, queue_file>>

\* rom_files.py:412-430, 454-469: the filter text is asked for and the
\* filtered list, if any, is shown
filter_prompt(items, pc) ==
  \E filter_text \in FilterPromptTexts :
     LET filtered == filter_items(items, Strip(filter_text)) IN
     /\ g_nav' = [Record("filter") EXCEPT
                    !.locals = [nav_locals EXCEPT
                                  !.filter_text = Strip(filter_text)]]
     /\ IF filtered # <<>>
        THEN /\ nav_pc' = pc
             /\ nav_locals' = [nav_locals EXCEPT
                                 !.filter_text = Strip(filter_text),
                                 !.shown = filtered]
             /\ UNCHANGED <<nav_stack, history, history_file>>
        ELSE Continue

\* rom_browser.py:449-464, rom_files.py:406-440: the answer to the list of
\* directories
DirectoriesChoice ==
  /\ nav_pc = "dirs"
  /\ \E input \in NavInputs :
        LET directories == nav_locals.directories
            choice == get_user_choice(nav_browser, input, Len(directories))
            event == input_event(nav_browser, input, Len(directories))
        IN  IF choice = Num(-1)
            THEN g_nav' = Record(event) /\ ReturnFalse /\ UNCHANGED NavEffects
            ELSE IF choice = Num(-2)
                 THEN /\ g_nav' = Record(event)
                      /\ ReturnTrue /\ UNCHANGED NavEffects
            ELSE IF choice = Num(-3)
                 THEN /\ filter_prompt(directories, "filtered_dirs")
                      /\ UNCHANGED NavEffects
            ELSE IF choice.is_none
                 THEN /\ g_nav' = Record(event)
                      /\ command_dialog(event)
                      /\ Continue
                      /\ UNCHANGED <<index, dl_files, dl_partial,
                                     current_url, nav_origin>>
            ELSE LET selected_dir == directories[choice.value] IN
                 /\ g_nav' = RecordSelection(event, selected_dir)
                 /\ Call(new_url(Url, selected_dir))
                 /\ UNCHANGED NavEffects
  /\ UNCHANGED exceptNav

\* rom_files.py:420-427 and what follows the if: the answer to the list of
\* filtered directories
FilteredDirsChoice ==
  /\ nav_pc = "filtered_dirs"
  /\ \E input \in NavInputs :
        LET filtered_dirs == nav_locals.shown
            choice == get_user_choice(nav_browser, input, Len(filtered_dirs))
            event == input_event(nav_browser, input, Len(filtered_dirs))
        IN  IF Truthy(choice) /\ choice.value > 0
            THEN LET selected_dir == filtered_dirs[choice.value] IN
                 /\ g_nav' = RecordSelection(event, selected_dir)
                 /\ Call(new_url(Url, selected_dir))
            ELSE /\ g_nav' = Record(event)
                 /\ FilesSection(nav_locals.directories, nav_locals.files)
  /\ UNCHANGED NavEffects
  /\ UNCHANGED exceptNav

\* rom_browser.py:470-482, rom_files.py:448-476: the answer to the list of
\* files
FilesChoice ==
  /\ nav_pc = "files"
  /\ \E input \in NavInputs :
        LET files == nav_locals.files
            choice == get_user_choice(nav_browser, input, Len(files))
            event == input_event(nav_browser, input, Len(files))
        IN  IF choice = Num(-1)
            THEN g_nav' = Record(event) /\ ReturnFalse /\ UNCHANGED NavEffects
            ELSE IF choice = Num(-2)
                 THEN /\ g_nav' = Record(event)
                      /\ ReturnTrue /\ UNCHANGED NavEffects
            ELSE IF choice = Num(-3)
                 THEN /\ filter_prompt(files, "filtered_files")
                      /\ UNCHANGED NavEffects
            ELSE IF choice.is_none
                 THEN /\ g_nav' = Record(event)
                      /\ command_dialog(event)
                      /\ Continue
                      /\ UNCHANGED <<index, dl_files, dl_partial,
                                     current_url, nav_origin>>
            ELSE LET selected_file == files[choice.value] IN
                 /\ g_nav' = RecordSelection(event, selected_file)
                 /\ handle_file_selection(Url, selected_file)
                 /\ Continue
                 /\ UNCHANGED <<index, filter_file, current_url,
                                nav_origin>>
  /\ UNCHANGED exceptNav

\* rom_files.py:462-466 and what follows the if: the answer to the list of
\* filtered files
FilteredFilesChoice ==
  /\ nav_pc = "filtered_files"
  /\ \E input \in NavInputs :
        LET filtered_files == nav_locals.shown
            choice == get_user_choice(nav_browser, input, Len(filtered_files))
            event == input_event(nav_browser, input, Len(filtered_files))
        IN  IF Truthy(choice) /\ choice.value > 0
            THEN LET selected_file == filtered_files[choice.value] IN
                 /\ g_nav' = RecordSelection(event, selected_file)
                 /\ handle_file_selection(Url, selected_file)
                 /\ Continue
                 /\ UNCHANGED <<index, filter_file, current_url,
                                nav_origin>>
            ELSE /\ g_nav' = Record(event)
                 /\ ReturnTrue
                 /\ UNCHANGED NavEffects
  /\ UNCHANGED exceptNav

NextNav ==
  \/ RBMainMenu \/ FBMainMenu \/ DownloadIndexFails \/ DownloadIndexOk
  \/ DirectoriesChoice \/ FilteredDirsChoice
  \/ FilesChoice \/ FilteredFilesChoice

(***************************************************************************)
(* CustomRatingsManager (external/GameShortcuts/custom_ratings_manager.py).*)
(* A rating is a number of tenths; a float is a number of tenths or nan.   *)
(* custom_data is a function over the names of the games: the entry of a   *)
(* name that is not a key of the dict has present = FALSE.                 *)
(***************************************************************************)
\* the names of the games
GameNames == {"g1", "g2"}

\* a Python float: a number of tenths, or nan
Float(t) == [is_nan |-> FALSE, tenths |-> t]
NaN == [is_nan |-> TRUE, tenths |-> 0]

\* the `rating` argument of set_custom_rating: a float (what the launcher's
\* askfloat dialog returns) or a string
FloatArg(t) == [kind |-> "float", value |-> Float(t), text |-> <<>>]
StrArg(s) == [kind |-> "str", value |-> NaN, text |-> s]

RatingArgs ==
  { FloatArg(-1), FloatArg(0), FloatArg(85), FloatArg(101),
    StrArg(<<"8", ".", "5">>), StrArg(<<" ", "1", "0", " ">>),
    StrArg(<<"-", "0", ".", "5">>), StrArg(<<"n", "a", "n">>),
    StrArg(<<"x">>), StrArg(<<>>) }

\* the decimal numeral s, with at most one digit after the point, in tenths
IsDecimal(s) ==
  \/ IsInt(s)
  \/ /\ Len(s) >= 3
     /\ s[Len(s) - 1] = "."
     /\ s[Len(s)] \in Range(DigitChars)
     /\ IsInt(SubSeq(s, 1, Len(s) - 2))

TenthsOf(s) ==
  IF IsInt(s) THEN 10 * IntOf(s)
  ELSE LET whole == SubSeq(s, 1, Len(s) - 2)
           frac == NatOf(<<s[Len(s)]>>)
       IN  IF whole[1] = "-" THEN 10 * IntOf(whole) - frac
           ELSE 10 * IntOf(whole) + frac

\* custom_ratings_manager.py:48: float(rating); ok is FALSE when it raises
\* ValueError
to_float(arg) ==
  IF arg.kind = "float" THEN [ok |-> TRUE, value |-> arg.value]
  ELSE LET s == Strip(arg.text) IN
       IF Lower(s) = <<"n", "a", "n">> THEN [ok |-> TRUE, value |-> NaN]
       ELSE IF IsDecimal(s) THEN [ok |-> TRUE, value |-> Float(TenthsOf(s))]
       ELSE [ok |-> FALSE, value |-> NaN]

\* custom_ratings_manager.py:49: 0 <= rating <= 10
in_range(f) == ~f.is_nan /\ 0 <= f.tenths /\ f.tenths <= 100

\* the tags a game may be given
TagSamples == { <<"R">>, <<"x">> }

\* the `tags` argument of set_custom_tags: a list, or a string (what the
\* launcher's askstring dialog returns)
ListArg(l) == [kind |-> "list", list |-> l, text |-> <<>>]
TextArg(s) == [kind |-> "str", list |-> <<>>, text |-> s]

TagArgs ==
  { ListArg(<<>>), ListArg(<< <<"R">> >>),
    TextArg(<<"R", ",", " ", "x">>), TextArg(<<" ", ",">>) }

\* str.split(','): the pieces of s between the commas
RECURSIVE SplitComma(_, _)
SplitComma(s, piece) ==
  IF s = <<>> THEN <<piece>>
  ELSE IF s[1] = "," THEN <<piece>> \o SplitComma(Tail(s), <<>>)
  ELSE SplitComma(Tail(s), Append(piece, s[1]))

\* custom_ratings_manager.py:97-100
tags_of(arg) ==
  IF arg.kind = "str" THEN StrippedNonEmpty(SplitComma(arg.text, <<>>))
  ELSE arg.list

\* the entry of a name that is not a key of custom_data
Absent == [present |-> FALSE, rating |-> None, tags |-> <<>>]
\* custom_ratings_manager.py:51, 94, 115
NewEntry == [present |-> TRUE, rating |-> None, tags |-> <<>>]

NoData == [n \in GameNames |-> Absent]

\* custom_ratings.json: [exists, format, data]; a file in the old format
\* maps each name to a number
NoDataFile == [exists |-> FALSE, format |-> "new", data |-> NoData]
DataFileOf(data) == [exists |-> TRUE, format |-> "new", data |-> data]

\* the files a manager may find when it is constructed
SampleDataFiles ==
  { NoDataFile,
    DataFileOf(NoData),
    [exists |-> TRUE, format |-> "old",
     data |-> [n \in GameNames |->
                 IF n = "g1" THEN [present |-> TRUE, rating |-> Num(60),
                                   tags |-> <<>>]
                 ELSE Absent]],
    DataFileOf([n \in GameNames |->
                 IF n = "g1" THEN [present |-> TRUE, rating |-> Num(0),
                                   tags |-> << <<"R">> >>]
                 ELSE Absent]) }

\* custom_ratings_manager.py:15-32
load_data(file) ==
  IF ~file.exists THEN NoData
  ELSE IF file.format = "old"
       THEN [n \in GameNames |->
               IF file.data[n].present
               THEN [present |-> TRUE, rating |-> file.data[n].rating,
                     tags |-> <<>>]
               ELSE Absent]
  ELSE file.data

\* custom_ratings_manager.py:34-42 (the file can be written)
save_data(data) == data_file' = DataFileOf(data)

\* custom_ratings_manager.py:62-66
get_custom_rating(data, game_name) ==
  IF data[game_name].present THEN data[game_name].rating ELSE None

\* `if custom_rating:` in place of `if custom_rating is not None:`
get_final_rating_truthy(data, game_name, downloaded_rating) ==
  IF Truthy(get_custom_rating(data, game_name))
  THEN get_custom_rating(data, game_name)
  ELSE downloaded_rating

\* custom_ratings_manager.py:84-89
get_final_rating(data, game_name, downloaded_rating) ==
  IF ~get_custom_rating(data, game_name).is_none
  THEN get_custom_rating(data, game_name)
  ELSE downloaded_rating

\* the entry is created before the rating is validated
set_custom_rating_creates_entry(data, game_name, arg) ==
  LET f == to_float(arg)
      entry == IF data[game_name].present THEN data[game_name] ELSE NewEntry
  IN  IF f.ok /\ in_range(f.value)
      THEN [result |-> TRUE, saved |-> TRUE,
            data |-> [data EXCEPT ![game_name] =
                        [entry EXCEPT !.rating = Num(f.value.tenths)]]]
      ELSE [result |-> FALSE, saved |-> FALSE,
            data |-> [data EXCEPT ![game_name] = entry]]

\* custom_ratings_manager.py:44-60: what is returned, custom_data after the
\* call, and whether save_data was called
set_custom_rating(data, game_name, arg) ==
  LET f == to_float(arg)
      entry == IF data[game_name].present THEN data[game_name] ELSE NewEntry
  IN  IF f.ok /\ in_range(f.value)
      THEN [result |-> TRUE, saved |-> TRUE,
            data |-> [data EXCEPT ![game_name] =
                        [entry EXCEPT !.rating = Num(f.value.tenths)]]]
      ELSE [result |-> FALSE, saved |-> FALSE, data |-> data]

\* custom_ratings_manager.py:68-77
remove_custom_rating(data, game_name) ==
  IF data[game_name].present
  THEN [result |-> TRUE, saved |-> TRUE,
        data |-> [data EXCEPT ![game_name] =
                    IF data[game_name].tags = <<>> THEN Absent
                    ELSE [data[game_name] EXCEPT !.rating = None]]]
  ELSE [result |-> FALSE, saved |-> FALSE, data |-> data]

\* custom_ratings_manager.py:91-104
set_custom_tags(data, game_name, arg) ==
  LET entry == IF data[game_name].present THEN data[game_name] ELSE NewEntry
  IN  [result |-> TRUE, saved |-> TRUE,
       data |-> [data EXCEPT ![game_name] =
                   [entry EXCEPT !.tags = tags_of(arg)]]]

\* custom_ratings_manager.py:112-122
add_custom_tag(data, game_name, tag) ==
  LET entry == IF data[game_name].present THEN data[game_name] ELSE NewEntry
  IN  IF tag \in Range(entry.tags)
      THEN [result |-> TRUE, saved |-> FALSE,
            data |-> [data EXCEPT ![game_name] = entry]]
      ELSE [result |-> TRUE, saved |-> TRUE,
            data |-> [data EXCEPT ![game_name] =
                        [entry EXCEPT !.tags = Append(entry.tags, tag)]]]

\* list.remove(tag): the first occurrence is removed
RECURSIVE list_remove(_, _)
list_remove(l, x) ==
  IF l = <<>> THEN <<>>
  ELSE IF l[1] = x THEN Tail(l) ELSE <<l[1]>> \o list_remove(Tail(l), x)

\* custom_ratings_manager.py:124-135
remove_custom_tag(data, game_name, tag) ==
  IF data[game_name].present /\ tag \in Range(data[game_name].tags)
  THEN LET tags == list_remove(data[game_name].tags, tag) IN
       [result |-> TRUE, saved |-> TRUE,
        data |-> [data EXCEPT ![game_name] =
                    IF tags = <<>> /\ data[game_name].rating.is_none
                    THEN Absent
                    ELSE [data[game_name] EXCEPT !.tags = tags]]]
  ELSE [result |-> TRUE, saved |-> FALSE, data |-> data]

\* what the manager was asked last, the state it was asked in and what it
\* answered
NoOp == [op |-> "none", game_name |-> "g1", rating_arg |-> FloatArg(0),
         downloaded |-> None, data |-> NoData, file |-> NoDataFile,
         result |-> FALSE, value |-> None]

Asked(op, game_name) ==
  [NoOp EXCEPT !.op = op, !.game_name = game_name,
               !.data = custom_data, !.file = data_file]

\* the call has returned r: custom_data is as the call left it, and the
\* file is written if the call saved
Done(r) ==
  /\ custom_data' = r.data
  /\ IF r.saved THEN save_data(r.data) ELSE data_file' = data_file

\* custom_ratings_manager.py:11-13
RatingsInit ==
  /\ data_file \in SampleDataFiles
  /\ custom_data = load_data(data_file)
  /\ g_rating = [n \in GameNames |-> get_custom_rating(custom_data, n)]
  /\ r_last = NoOp

SetCustomRating ==
  \E game_name \in GameNames, arg \in RatingArgs :
     LET r == set_custom_rating(custom_data, game_name, arg) IN
     /\ Done(r)
     /\ r_last' = [Asked("set_custom_rating", game_name) EXCEPT
                     !.rating_arg = arg, !.result = r.result]
     /\ g_rating' = IF r.result
                    THEN [g_rating EXCEPT ![game_name] =
                            Num(to_float(arg).value.tenths)]
                    ELSE g_rating
     /\ UNCHANGED exceptRatings

RemoveCustomRating ==
  \E game_name \in GameNames :
     LET r == remove_custom_rating(custom_data, game_name) IN
     /\ Done(r)
     /\ r_last' = [Asked("remove_custom_rating", game_name) EXCEPT
                     !.result = r.result]
     /\ g_rating' = [g_rating EXCEPT ![game_name] = None]
     /\ UNCHANGED exceptRatings

SetCustomTags ==
  \E game_name \in GameNames, arg \in TagArgs :
     LET r == set_custom_tags(custom_data, game_name, arg) IN
     /\ Done(r)
     /\ r_last' = [Asked("set_custom_tags", game_name) EXCEPT
                     !.result = r.result]
     /\ UNCHANGED g_rating
     /\ UNCHANGED exceptRatings

AddCustomTag ==
  \E game_name \in GameNames, tag \in TagSamples :
     LET r == add_custom_tag(custom_data, game_name, tag) IN
     /\ Done(r)
     /\ r_last' = [Asked("add_custom_tag", game_name) EXCEPT
                     !.result = r.result]
     /\ UNCHANGED g_rating
     /\ UNCHANGED exceptRatings

RemoveCustomTag ==
  \E game_name \in GameNames, tag \in TagSamples :
     LET r == remove_custom_tag(custom_data, game_name, tag) IN
     /\ Done(r)
     /\ r_last' = [Asked("remove_custom_tag", game_name) EXCEPT
                     !.result = r.result]
     /\ UNCHANGED g_rating
     /\ UNCHANGED exceptRatings

\* the downloaded ratings the launcher passes: None when the database has
\* no rating for the game
DownloadedRatings == {None, Num(0), Num(70)}

GetFinalRating ==
  \E game_name \in GameNames, downloaded \in DownloadedRatings :
     /\ r_last' = [Asked("get_final_rating", game_name) EXCEPT
                     !.downloaded = downloaded,
                     !.value = get_final_rating(custom_data, game_name,
                                                downloaded)]
     /\ UNCHANGED <<custom_data, data_file, g_rating>>
     /\ UNCHANGED exceptRatings

NextRatings ==
  \/ SetCustomRating \/ RemoveCustomRating \/ SetCustomTags
  \/ AddCustomTag \/ RemoveCustomTag \/ GetFinalRating

RatingsIdle ==
  /\ custom_data = NoData
  /\ data_file = NoDataFile
  /\ g_rating = [n \in GameNames |-> None]
  /\ r_last = NoOp

(***************************************************************************)
(* find_executables of scripts/shortcuts/create_shortcuts_single.py and    *)
(* create_shortcuts_config.py.  A file of the scanned tree is              *)
(* [game_dir, sub, name]: the directory of the first level under the       *)
(* target it lies in, the directory under that one ("" for none), and its  *)
(* name, a sequence of characters.                                         *)
(***************************************************************************)
\* the script that runs
ScanVariants == {"single", "config"}

LowerLetters == <<"a", "b", "c", "d", "e", "f", "g", "h", "i", "j", "k",
    "l", "m", "n", "o", "p", "q", "r", "s", "t", "u", "v", "w", "x", "y",
        "z">>
UpperLetters == <<"A", "B", "C", "D", "E", "F", "G", "H", "I", "J", "K",
    "L", "M", "N", "O", "P", "Q", "R", "S", "T", "U", "V", "W", "X", "Y",
        "Z">>

\* the position of c in the sequence s
IndexOf(s, c) == CHOOSE i \in 1..Len(s) : s[i] = c

\* str.lower() on the upper-case letters
LowerOfUpper ==
  [c \in Range(UpperLetters) |-> LowerLetters[IndexOf(UpperLetters, c)]]

\* str.lower() on a character of a file name
NameLowerChar(c) == IF c \in DOMAIN LowerOfUpper THEN LowerOfUpper[c] ELSE c

\* Path.name.lower()
NameLower(name) == [i \in 1..Len(name) |-> NameLowerChar(name[i])]

\* ord(c), for the characters of the file names
NameOrd ==
  [c \in Range(LowerLetters) \cup Range(UpperLetters) \cup Range(DigitChars)
           \cup {" ", "-", ".", "_"} |->
     IF c \in Range(LowerLetters) THEN 96 + IndexOf(LowerLetters, c)
     ELSE IF c \in Range(UpperLetters) THEN 64 + IndexOf(UpperLetters, c)
     ELSE IF c \in Range(DigitChars) THEN 47 + IndexOf(DigitChars, c)
     ELSE CASE c = " " -> 32 [] c = "-" -> 45 [] c = "." -> 46
            [] c = "_" -> 95]

\* a < b for str
RECURSIVE NameLess(_, _)
NameLess(a, b) ==
  IF b = <<>> THEN FALSE
  ELSE IF a = <<>> THEN TRUE
  ELSE IF NameOrd[a[1]] < NameOrd[b[1]] THEN TRUE
  ELSE IF NameOrd[a[1]] > NameOrd[b[1]] THEN FALSE
  ELSE NameLess(Tail(a), Tail(b))

\* the last position of a "." in name, 0 if there is none
RECURSIVE LastDot(_)
LastDot(name) ==
  IF name = <<>> THEN 0
  ELSE IF name[Len(name)] = "." THEN Len(name)
  ELSE LastDot(SubSeq(name, 1, Len(name) - 1))

\* Path.suffix: from the last dot, unless the name starts or ends with it
suffix(name) ==
  IF 1 < LastDot(name) /\ LastDot(name) < Len(name)
  THEN SubSeq(name, LastDot(name), Len(name))
  ELSE <<>>

\* create_shortcuts_single.py:25, create_shortcuts_config.py:56
exe_extensions == { <<".", "e", "x", "e">>, <<".", "b", "a", "t">>, <<".",
    "c", "m", "d">>, <<".", "m", "s", "i">>, <<".", "c", "o", "m">> }

\* create_shortcuts_single.py:28-143, create_shortcuts_config.py:59-174:
\* the entries of exclude_patterns, in lower case, that occur in a name of
\* SampleFiles; no other entry of the lists occurs in one.  The second is
\* an entry of create_shortcuts_single.py only.
exclude_patterns(variant) ==
  { <<"u", "n", "i", "n", "s", "0", "0", "0", ".", "e", "x", "e">> }
  \cup (IF variant = "single"
        THEN { <<"s", "t", "a", "r", "t", "_", "p", "r", "o", "t", "e",
            "c", "t", "e", "d", "_", "g", "a", "m", "e", ".", "e", "x",
                "e">> }
        ELSE {})

\* the deny-list is not consulted
is_executable_no_deny(variant, file) ==
  NameLower(suffix(file.name)) \in exe_extensions

\* create_shortcuts_single.py:150-180, create_shortcuts_config.py:179-207:
\* the file is appended to its group by the first walk
is_executable(variant, file) ==
  /\ NameLower(suffix(file.name)) \in exe_extensions
  /\ ~\E pattern \in exclude_patterns(variant) :
        Contains(NameLower(file.name), pattern)

\* create_shortcuts_config.py:219
lnk_keywords == { <<"l", "a", "u", "n", "c", "h">>, <<"p", "l", "a",
    "y">>, <<"s", "t", "a", "r", "t">>, <<"r", "u", "n">> }

\* create_shortcuts_config.py:209-222: the file is appended to its group by
\* the second walk
is_launcher_lnk(variant, file) ==
  /\ variant = "config"
  /\ EndsWith(NameLower(file.name), <<".", "l", "n", "k">>)
  /\ \E keyword \in lnk_keywords : Contains(NameLower(file.name), keyword)

\* the ranks in the opposite order: shipping first
sort_key_shipping_first(variant, name) ==
  IF variant = "config" /\ EndsWith(NameLower(name), <<".", "l", "n",
      "k">>) THEN -1
  ELSE IF Contains(NameLower(name), <<"s", "h", "i", "p", "p", "i", "n",
      "g">>) THEN 0
  ELSE IF Contains(NameLower(name), <<"w", "i", "n", "6", "4">>) THEN 1
  ELSE IF Contains(NameLower(name), <<"l", "a", "u", "n", "c", "h", "e",
      "r">>) THEN 2
  ELSE 3

\* create_shortcuts_single.py:190-200, create_shortcuts_config.py:232-246
sort_key(variant, name) ==
  IF variant = "config" /\ EndsWith(NameLower(name), <<".", "l", "n",
      "k">>) THEN -1
  ELSE IF Contains(NameLower(name), <<"s", "h", "i", "p", "p", "i", "n",
      "g">>) THEN 3
  ELSE IF Contains(NameLower(name), <<"w", "i", "n", "6", "4">>) THEN 2
  ELSE IF Contains(NameLower(name), <<"l", "a", "u", "n", "c", "h", "e",
      "r">>) THEN 1
  ELSE 0

\* (sort_key(a), a.name.lower()) < (sort_key(b), b.name.lower())
KeyLess(variant, a, b) ==
  \/ sort_key(variant, a.name) < sort_key(variant, b.name)
  \/ /\ sort_key(variant, a.name) = sort_key(variant, b.name)
     /\ NameLess(NameLower(a.name), NameLower(b.name))

\* list.sort(key=...): stable, ascending
RECURSIVE InsertExecutable(_, _, _)
InsertExecutable(variant, sorted, file) ==
  IF sorted = <<>> THEN <<file>>
  ELSE IF KeyLess(variant, file, sorted[Len(sorted)])
       THEN InsertExecutable(variant, SubSeq(sorted, 1, Len(sorted) - 1),
                             file) \o <<sorted[Len(sorted)]>>
       ELSE sorted \o <<file>>

RECURSIVE sort_executables(_, _)
sort_executables(variant, executables) ==
  IF executables = <<>> THEN <<>>
  ELSE InsertExecutable(variant,
         sort_executables(variant,
                          SubSeq(executables, 1, Len(executables) - 1)),
         executables[Len(executables)])

\* the files the two walks append to the groups, in the order they do
found(variant, walk) ==
  SelectSeq(walk, LAMBDA file : is_executable(variant, file))
    \o SelectSeq(walk, LAMBDA file : is_launcher_lnk(variant, file))

\* the keys of game_dirs, in the order they are inserted
RECURSIVE group_order(_)
group_order(files) ==
  IF files = <<>> THEN <<>>
  ELSE LET before == group_order(SubSeq(files, 1, Len(files) - 1))
           game_dir == files[Len(files)].game_dir
       IN  IF game_dir \in Range(before) THEN before
           ELSE Append(before, game_dir)

\* game_dirs[game_dir]
group(variant, walk, game_dir) ==
  SelectSeq(found(variant, walk), LAMBDA file : file.game_dir = game_dir)

\* create_shortcuts_single.py:12-208, create_shortcuts_config.py:45-252:
\* the list returned when os.walk yields the files of the tree in the order
\* `walk`
find_executables(variant, walk) ==
  LET order == group_order(found(variant, walk)) IN
  [i \in 1..Len(order) |->
     sort_executables(variant, group(variant, walk, order[i]))[1]]

File(game_dir, sub, name) == [game_dir |-> game_dir, sub |-> sub, name |-> name]

\* the files a scanned tree may hold
SampleFiles ==
  { File("G", "y",
         <<"G", "a", "m", "e", ".", "e", "x", "e">>),
    File("G", "x",
         <<"g", "a", "m", "e", ".", "e", "x", "e">>),
    File("G", "bin",
         <<"G", "a", "m", "e", "-", "W", "i", "n", "6", "4", "-", "S", "h",
             "i", "p", "p", "i", "n", "g", ".", "e", "x", "e">>),
    File("G", "",
         <<"G", "a", "m", "e", "-", "W", "i", "n", "6", "4", ".", "e", "x",
             "e">>),
    File("G", "",
         <<"G", "a", "m", "e", "L", "a", "u", "n", "c", "h", "e", "r", "2",
             ".", "e", "x", "e">>),
    File("G", "",
         <<"U", "N", "I", "N", "S", "0", "0", "0", ".", "E", "X", "E">>),
    File("G", "",
         <<"r", "e", "a", "d", "m", "e", ".", "t", "x", "t">>),
    File("G", "",
         <<"P", "l", "a", "y", ".", "l", "n", "k">>),
    File("G", "",
         <<"N", "o", "t", "e", "s", ".", "l", "n", "k">>),
    File("H", "",
         <<"s", "t", "a", "r", "t", "_", "p", "r", "o", "t", "e", "c", "t",
             "e", "d", "_", "g", "a", "m", "e", ".", "e", "x", "e">>) }

\* the trees that are scanned
SampleTrees == {tree \in SUBSET SampleFiles : Cardinality(tree) <= MaxTreeFiles}

\* the directory a file lies in
DirOf(file) == <<file.game_dir, file.sub>>

\* the orders os.walk may yield the files of a tree in: the files of one
\* directory together, those of a game directory together and before those
\* of the directories under it; os.scandir fixes no order beyond that
Walks(tree) ==
  {walk \in [1..Cardinality(tree) -> tree] :
     /\ \A i, j \in DOMAIN walk : walk[i] = walk[j] => i = j
     /\ \A i, j, k \in DOMAIN walk :
          (i < j /\ j < k) =>
             /\ DirOf(walk[i]) = DirOf(walk[k]) =>
                   DirOf(walk[j]) = DirOf(walk[i])
             /\ walk[i].game_dir = walk[k].game_dir =>
                   walk[j].game_dir = walk[i].game_dir
     /\ \A i, j \in DOMAIN walk :
          (walk[i].game_dir = walk[j].game_dir
             /\ walk[i].sub = "" /\ walk[j].sub # "") => i < j}

ScanInit ==
  /\ scan_variant \in ScanVariants
  /\ scan_tree \in SampleTrees
  /\ scan_walk = <<>>
  /\ scan_called = FALSE
  /\ scan_selected = <<>>

\* main() of either script calls find_executables(target_directory)
FindExecutables ==
  /\ \E walk \in Walks(scan_tree) :
        /\ scan_walk' = walk
        /\ scan_selected' = find_executables(scan_variant, walk)
  /\ scan_called' = TRUE
  /\ UNCHANGED <<scan_variant, scan_tree>>
  /\ UNCHANGED exceptScan

NextScan == FindExecutables

ScanIdle ==
  /\ scan_variant = "single"
  /\ scan_tree = {}
  /\ scan_walk = <<>>
  /\ scan_called = FALSE
  /\ scan_selected = <<>>

(***************************************************************************)
(* ROMBrowser: the pages of a list.  display_items prints one page of the  *)
(* list and get_user_choice reads the answer; the list is its length, an   *)
(* entry is its number.                                                    *)
(***************************************************************************)
NoPager == [pc |-> "idle", total_items |-> 0, shown |-> {}, input |-> <<>>,
            choice |-> None]

\* the lengths of a list: up to a full page and MaxExtraItems more
ListLengths == 0..(page_size + MaxExtraItems)

\* what the user types at the prompt: numbers around the ends of the page
\* and of the list, and the letters of a next and a previous page
PagerInputs(total_items) ==
  {Digits(k) : k \in {0, 1, page_size, page_size + 1, total_items,
                      total_items + 1}}
    \cup { <<"n">>, <<"p">> }

\* rom_browser.py:210-228: the numbers of the entries display_items prints
display_items(total_items, page) ==
  IF total_items = 0 THEN {}
  ELSE LET start_idx == (page - 1) * page_size
           end_idx == IF start_idx + page_size < total_items
                      THEN start_idx + page_size ELSE total_items
       IN  (start_idx + 1)..end_idx

PagerInit == pager \in {[NoPager EXCEPT !.total_items = n] : n \in ListLengths}

\* rom_browser.py:445-447, 467-468: browse_directory shows a list that is
\* not empty, with the default page
DisplayItems ==
  /\ pager.pc \in {"idle", "chosen"}
  /\ pager.total_items > 0
  /\ pager' = [pager EXCEPT !.pc = "listed",
                            !.shown = display_items(pager.total_items, 1)]
  /\ UNCHANGED exceptPager

\* rom_browser.py:449, 470: the answer at the prompt
PagerChoice ==
  /\ pager.pc = "listed"
  /\ \E input \in PagerInputs(pager.total_items) :
        pager' = [pager EXCEPT
                    !.pc = "chosen",
                    !.input = input,
                    !.choice = get_user_choice("ROMBrowser", input,
                                               pager.total_items)]
  /\ UNCHANGED exceptPager

NextPager == DisplayItems \/ PagerChoice

PagerIdle == pager = NoPager

(***************************************************************************)
(* EnhancedGameLauncher: the threads of "download metadata"                *)
(* (external/GameShortcuts/enhanced_game_launcher.py).  A thread is where  *)
(* it is in _download_metadata_thread: 0 before the batch, k while the     *)
(* k-th game is processed, games + 1 when it has returned.                 *)
(***************************************************************************)
NoGui == [games |-> 0, threads |-> <<>>]

GuiInit == gui \in {[NoGui EXCEPT !.games = n] : n \in 0..MaxGames}

\* enhanced_game_launcher.py:1351-1363
download_metadata(g) ==
  IF g.games = 0 THEN g
  ELSE [g EXCEPT !.threads = Append(@, 0)]

\* the button is clicked
DownloadMetadata ==
  /\ Len(gui.threads) < MaxClicks
  /\ gui' = download_metadata(gui)
  /\ UNCHANGED exceptGui

\* the thread has not returned
Running(g, i) == g.threads[i] <= g.games

\* enhanced_game_launcher.py:1365-1394 and metadata_downloader.py:987-1013:
\* a thread goes on to the next game, or refreshes the display and returns
DownloadMetadataThread ==
  /\ \E i \in 1..Len(gui.threads) :
        /\ Running(gui, i)
        /\ gui' = [gui EXCEPT !.threads[i] = @ + 1]
  /\ UNCHANGED exceptGui

NextGui == DownloadMetadata \/ DownloadMetadataThread

GuiIdle == gui = NoGui

(***************************************************************************)
(* GameNameResolver.resolve_game_name                                      *)
(* (external/GameShortcuts/game_name_resolver.py).  A step is one          *)
(* activation of the function; the value of a recursive call is returned   *)
(* as it is.  The interpreter raises RecursionError at its recursion       *)
(* limit, which MaxRecursion stands for.                                   *)
(***************************************************************************)
\* game_name_resolver.py:19-201: entries of the table, in its order
game_mappings ==
  << << <<"S", "k", "y", "r", "i", "m">>, <<"The Elder Scrolls V: Skyrim">> >>,
     << <<"b", "f", "4">>, <<"Battlefield 4">> >>,
     << <<"Y", "K", "S">>, <<"YKS">> >> >>

LaunchPrefix == <<"L", "a", "u", "n", "c", "h", " ">>

\* names of shortcuts
ResolverNames ==
  { lead \o body \o trail :
      lead \in { <<>>, LaunchPrefix, NameLower(LaunchPrefix),
                   <<"L", "A", "U", "N", "C", "H", " ">>,
                   LaunchPrefix \o LaunchPrefix },
      body \in { <<"b", "f", "4">>, <<"B", "F", "4">>, <<"Y", "K", "S">>,
                 <<"S", "k", "y", "r", "i", "m">>, <<"x">>, <<>> },
      trail \in { <<>>, <<" ">> } }

\* the first of the entries of the table in hits, 0 for none
first_key(hits) ==
  IF hits = {} THEN 0 ELSE CHOOSE i \in hits : \A j \in hits : i <= j

\* game_name_resolver.py:203-221: one activation, up to its return or its
\* recursive call
resolve_game_name(name) ==
  LET keys == 1..Len(game_mappings)
      exact == first_key({i \in keys : game_mappings[i][1] = name})
      name_lower == NameLower(name)
      folded == first_key({i \in keys :
                             NameLower(game_mappings[i][1]) = name_lower})
  IN  IF exact # 0
      THEN [recurse |-> FALSE, value |-> game_mappings[exact][2]]
      ELSE IF folded # 0
           THEN [recurse |-> FALSE, value |-> game_mappings[folded][2]]
      ELSE IF StartsWith(name_lower, NameLower(LaunchPrefix))
           THEN [recurse |-> TRUE,
                 value |-> Strip(Replace(name, LaunchPrefix, <<>>))]
      ELSE [recurse |-> FALSE, value |-> name]

NoResolver == [pc |-> "idle", name |-> <<>>, arg |-> <<>>, depth |-> 0,
               result |-> <<>>]

ResolverInit == resolver = NoResolver

\* a caller resolves a name
ResolveGameName ==
  /\ resolver.pc # "call"
  /\ \E name \in ResolverNames :
        resolver' = [pc |-> "call", name |-> name, arg |-> name, depth |-> 1,
                     result |-> <<>>]
  /\ UNCHANGED exceptResolver

\* the innermost activation runs
ResolveStep ==
  /\ resolver.pc = "call"
  /\ LET r == resolve_game_name(resolver.arg) IN
     IF ~r.recurse
     THEN resolver' = [resolver EXCEPT !.pc = "returned", !.result = r.value]
     ELSE IF resolver.depth < MaxRecursion
          THEN resolver' = [resolver EXCEPT !.arg = r.value,
                                            !.depth = @ + 1]
          ELSE resolver' = [resolver EXCEPT !.pc = "raised"]
  /\ UNCHANGED exceptResolver

NextResolver == ResolveGameName \/ ResolveStep

ResolverIdle == resolver = NoResolver

ExtraIdle == PagerIdle /\ GuiIdle /\ ResolverIdle

\* the tools beside the browsers are not run
ToolsIdle == RatingsIdle /\ ScanIdle /\ ExtraIdle

BrowserIdle ==
  /\ nav_browser = "ROMBrowser"
  /\ history = <<>>
  /\ history_file = NoFile
  /\ download_queue = <<>>
  /\ current_url = base_url_redump
  /\ filter_file = NoFile

NavIdle ==
  /\ nav_pc = "ended"
  /\ nav_stack = <<>>
  /\ nav_locals = NoLocals
  /\ nav_origin = "menu"
  /\ g_nav = NoNav

GhostBIdle ==
  /\ q_pc = "idle"
  /\ g_saved = <<>>
  /\ g_appended = <<>>
  /\ g_hist_url = <<>>

ParseIdle ==
  /\ index = <<>>
  /\ rb_parsed = NotParsed
  /\ fb_parsed = NotParsed

DlIdle ==
  /\ queue_file = NoFile
  /\ dl_files = {}
  /\ dl_partial = {}
  /\ download_stats = ZeroStats
  /\ dl_mode = "interactive"
  /\ dl_pc = "ended"
  /\ batch_kind = "none"
  /\ batch_items = <<>>
  /\ batch_i = 0
  /\ df_written = 0
  /\ n_calls = MaxCalls
  /\ g_batch0 = [stats |-> ZeroStats, queue |-> NoFile,
                  max_files |-> None, rom_files |-> <<>>,
                  resumes |-> FALSE]
  /\ g_attempts = <<>>
  /\ g_call = NoCall
  /\ g_succeeded = {}

(***************************************************************************)
(* Specifications.                                                         *)
(***************************************************************************)
InitParse ==
  ParseInit /\ DlIdle /\ BrowserIdle /\ NavIdle /\ GhostBIdle /\ ToolsIdle

NextParse == RBParse \/ FBParse

\* the parsers, on every generated page
SpecParse == InitParse /\ [][NextParse]_vars

InitDl ==
  ParseIdle /\ DlInit /\ BrowserIdle /\ NavIdle /\ GhostBIdle /\ ToolsIdle

\* sessions of the downloader, on every generated queue file and directory
SpecDl == InitDl /\ [][NextDl]_vars

InitQueue ==
  /\ ParseIdle /\ DlIdle /\ QueueInit /\ NavIdle /\ ToolsIdle
  /\ nav_browser = "ROMBrowser" /\ history = <<>> /\ history_file = NoFile
  /\ current_url = base_url_redump /\ filter_file = NoFile
  /\ g_appended = <<>> /\ g_hist_url = <<>>

\* saving and loading the download queue of ROMBrowser
SpecQueue == InitQueue /\ [][NextQueue]_vars

InitHistory ==
  /\ ParseIdle /\ DlIdle /\ HistoryInit /\ NavIdle /\ ToolsIdle
  /\ download_queue = <<>> /\ q_pc = "idle" /\ g_saved = <<>>
  /\ current_url = base_url_redump /\ filter_file = NoFile

\* visits of directories, in either browser
SpecHistory == InitHistory /\ [][NextHistory]_vars

InitNav == ParseIdle /\ DlIdle /\ NavInit /\ GhostBIdle /\ ToolsIdle

\* interactive sessions of either browser
SpecNav == InitNav /\ [][NextNav]_vars

InitRatings ==
  /\ ParseIdle /\ DlIdle /\ BrowserIdle /\ NavIdle /\ GhostBIdle
  /\ RatingsInit /\ ScanIdle /\ ExtraIdle

\* calls of a CustomRatingsManager, from every sample file
SpecRatings == InitRatings /\ [][NextRatings]_vars

InitScan ==
  /\ ParseIdle /\ DlIdle /\ BrowserIdle /\ NavIdle /\ GhostBIdle
  /\ RatingsIdle /\ ScanInit /\ ExtraIdle

\* find_executables of either script, on every sample tree
SpecScan == InitScan /\ [][NextScan]_vars

InitShared ==
  /\ ParseIdle /\ DlInit /\ dl_mode = "queue" /\ NavIdle /\ ToolsIdle
  /\ nav_browser = "ROMBrowser" /\ history = <<>> /\ history_file = NoFile
  /\ current_url = base_url_redump /\ filter_file = NoFile
  /\ download_queue = load_download_queue(queue_file)
  /\ q_pc = "idle" /\ g_saved = <<>>
  /\ g_appended = <<>> /\ g_hist_url = <<>>

NextShared ==
  \/ AddToQueue
  \/ DownloadFromQueue \/ DownloadFileBegin \/ DownloadFileGetFails
  \/ DownloadFileOpen \/ DownloadFileWriteChunk \/ DownloadFileWriteFails
  \/ DownloadFileDone \/ BatchEnd

\* a ROMBrowser that has loaded the queue file, and rom_downloader.py
\* --queue, as two processes on the one file
SpecShared == InitShared /\ [][NextShared]_vars

InitPager ==
  /\ ParseIdle /\ DlIdle /\ BrowserIdle /\ NavIdle /\ GhostBIdle
  /\ RatingsIdle /\ ScanIdle /\ PagerInit /\ GuiIdle /\ ResolverIdle

\* lists of every length shown by ROMBrowser.browse_directory
SpecPager == InitPager /\ [][NextPager]_vars

InitGui ==
  /\ ParseIdle /\ DlIdle /\ BrowserIdle /\ NavIdle /\ GhostBIdle
  /\ RatingsIdle /\ ScanIdle /\ PagerIdle /\ GuiInit /\ ResolverIdle

\* clicks on "download metadata" and the steps of the threads they start
SpecGui == InitGui /\ [][NextGui]_vars

InitResolver ==
  /\ ParseIdle /\ DlIdle /\ BrowserIdle /\ NavIdle /\ GhostBIdle
  /\ RatingsIdle /\ ScanIdle /\ PagerIdle /\ GuiIdle /\ ResolverInit

\* calls of resolve_game_name on every sample name
SpecResolver == InitResolver /\ [][NextResolver]_vars

(***************************************************************************)
(* Properties of the parsers.                                              *)
(***************************************************************************)
\* the hrefs the claim says are in neither list
C1_Discarded(href) ==
  \/ href \in {<<".", ".", "/">>, <<".", ".">>}
  \/ StartsWith(href, <<"h", "t", "t", "p">>)
  \/ Contains(href, <<"?">>)

\* C1: every entry of a directory list comes from an href of the page that
\* ends in '/', every entry of a file list from one that does not, and none
\* from an href equal to '../' or '..', beginning with 'http' or containing
\* '?' (ROMBrowser keeps the decoded name of the href, ROMFilesBrowser the
\* href itself).
C1_HrefsClassified ==
  /\ rb_parsed.called =>
       /\ \A name \in Range(rb_parsed.directories) :
            \E h \in Range(Hrefs(index)) :
               /\ EndsWith(h, <<"/">>) /\ ~C1_Discarded(h)
               /\ name = RStripSlash(unquote(h))
       /\ \A name \in Range(rb_parsed.files) :
            \E h \in Range(Hrefs(index)) :
               /\ ~EndsWith(h, <<"/">>) /\ ~C1_Discarded(h)
               /\ name = unquote(h)
  /\ fb_parsed.called =>
       /\ \A e \in Range(fb_parsed.directories) :
            /\ e.href \in Range(Hrefs(index))
            /\ EndsWith(e.href, <<"/">>) /\ ~C1_Discarded(e.href)
       /\ \A e \in Range(fb_parsed.files) :
            /\ e.href \in Range(Hrefs(index))
            /\ ~EndsWith(e.href, <<"/">>) /\ ~C1_Discarded(e.href)

\* no two entries of the list are equal
C17_Distinct(list) ==
  \A i, j \in 1..Len(list) : list[i] = list[j] => i = j

\* C17: the directory list and the file list made from one index page hold
\* no entry twice, also for a page in which an href occurs more than once,
\* in ROMBrowser.parse_index and in ROMFilesBrowser.list_dirs_links and
\* list_files_links.
C17_NoDuplicateEntries ==
  /\ rb_parsed.called =>
        C17_Distinct(rb_parsed.directories) /\ C17_Distinct(rb_parsed.files)
  /\ fb_parsed.called =>
        C17_Distinct(fb_parsed.directories) /\ C17_Distinct(fb_parsed.files)

\* lowercase(a) <= lowercase(b) for every adjacent pair (a, b) of the names
C18_Sorted(names) ==
  \A i \in 1..(Len(names) - 1) :
     ~StrLess(Lower(names[i + 1]), Lower(names[i]))

\* the display names of a list of ROMFilesBrowser
C18_DisplayNames(entries) ==
  [i \in 1..Len(entries) |-> entries[i].display_name]

\* C18: the directory list and the file list of an index page are sorted
\* case-insensitively by display name, for names of mixed case, in
\* ROMBrowser and in ROMFilesBrowser.
C18_SortedCaseInsensitive ==
  /\ rb_parsed.called =>
        C18_Sorted(rb_parsed.directories) /\ C18_Sorted(rb_parsed.files)
  /\ fb_parsed.called =>
        /\ C18_Sorted(C18_DisplayNames(fb_parsed.directories))
        /\ C18_Sorted(C18_DisplayNames(fb_parsed.files))


(***************************************************************************)
(* Properties of the download queue of ROMBrowser.                         *)
(***************************************************************************)
\* the lists the claim is about: every item non-empty, without a line end
\* (\n or \r, which a text file reads as \n) and without blanks around it
C6_Urls(queue) ==
  \A i \in 1..Len(queue) :
     /\ queue[i] # <<>>
     /\ ~Contains(queue[i], <<"\n">>) /\ ~Contains(queue[i], <<"\r">>)
     /\ Strip(queue[i]) = queue[i]

\* C6: when load_download_queue has run after save_download_queue on a
\* download_queue of non-empty URLs without line ends and without blanks
\* around them, download_queue holds the same URLs in the same order.
C6_QueueRoundTrip ==
  (q_pc = "reloaded" /\ C6_Urls(g_saved)) => download_queue = g_saved

\* two different URLs, one with a blank inside, saved and loaded
C6_Witness ==
  /\ q_pc = "reloaded" /\ C6_Urls(g_saved)
  /\ Len(g_saved) = 2 /\ g_saved[1] # g_saved[2]
  /\ \E i \in 1..2 : Contains(g_saved[i], <<" ">>)
  /\ download_queue = g_saved

(***************************************************************************)
(* Properties of the history.                                              *)
(***************************************************************************)
\* C7: after any add_to_history calls the history has at most the maximum
\* of entries (100 in ROMBrowser, 50 in ROMFilesBrowser) and is the list of
\* the URLs appended last, at most the maximum of them, in the order they
\* were appended: the oldest are dropped.
C7_HistoryBounded ==
  /\ Len(history) <= max_history
  /\ history = LastN(g_appended, max_history)

\* ROMBrowser after more appends than the maximum: the first are gone
C7_Witness ==
  /\ nav_browser = "ROMBrowser"
  /\ Len(g_appended) = RBHistoryMax + 2
  /\ Len(history) = RBHistoryMax
  /\ history[1] = g_appended[3]
  /\ history[RBHistoryMax] = g_appended[RBHistoryMax + 2]

(***************************************************************************)
(* Properties of the interactive sessions.                                 *)
(***************************************************************************)
\* C8: when the download of an index has failed in browse_directory, the
\* session has not ended: only the innermost browse_directory is left and
\* the user is at a prompt again.
C8_FetchFailureNotFatal ==
  g_nav.event = "fetch_failed" =>
     /\ nav_pc # "ended"
     /\ nav_stack = SubSeq(g_nav.stack, 1, Len(g_nav.stack) - 1)

\* C9: when q, quit or exit was entered at a prompt of the navigation loop,
\* at any depth and also at the prompt of a filtered list, the session has
\* ended: no browse_directory is in progress and main_menu has exited.
C9_QuitEndsSession ==
  g_nav.event = "quit" => (nav_pc = "ended" /\ nav_stack = <<>>)

\* C10: when an empty line, an unknown string or a number out of range was
\* entered at a prompt of the navigation loop, also at the prompt of a
\* filtered list, the URL, the depth, the history and the queue are as
\* before and the session is still in the loop of the same directory.
C10_InvalidInputNoChange ==
  g_nav.event = "invalid" =>
     /\ nav_stack = g_nav.stack
     /\ history = g_nav.history
     /\ download_queue = g_nav.queue
     /\ nav_pc \notin {"ended", "menu"}

C22_Matching(items, s) ==
  LET keep == {i \in 1..Len(items) :
                 s = <<>> \/ Contains(Lower(items[i].display_name), Lower(s))}
      nth(k) == CHOOSE i \in keep : Cardinality({j \in keep : j <= i}) = k
  IN  [k \in 1..Cardinality(keep) |-> items[nth(k)]]

\* the list the filter command was given on
C22_Unfiltered(locals, pc) ==
  IF pc = "filtered_dirs" THEN locals.directories ELSE locals.files

\* C22: the list shown after the filter command with the text s is the
\* entries whose display name contains s case-insensitively, in their
\* order, and it is shown when there is such an entry; the number k
\* entered at its prompt selects the k-th entry of that list, with the href
\* it has in the index: a directory is entered at url + urlencode(href).
C22_FilteredSelection ==
  /\ nav_pc \in {"filtered_dirs", "filtered_files"} =>
        nav_locals.shown = C22_Matching(C22_Unfiltered(nav_locals, nav_pc),
                                        nav_locals.filter_text)
  /\ (g_nav.event = "filter" /\ nav_browser = "ROMFilesBrowser") =>
        LET items == IF g_nav.pc = "dirs" THEN g_nav.locals.directories
                     ELSE g_nav.locals.files
        IN  (nav_pc \in {"filtered_dirs", "filtered_files"})
               <=> (C22_Matching(items, g_nav.locals.filter_text) # <<>>)
  /\ (/\ g_nav.event = "select"
      /\ g_nav.pc \in {"filtered_dirs", "filtered_files"}) =>
        \E k \in 1..Len(g_nav.locals.shown) :
           LET filtered == C22_Matching(
                             C22_Unfiltered(g_nav.locals, g_nav.pc),
                             g_nav.locals.filter_text)
               top == g_nav.stack[Len(g_nav.stack)]
           IN  /\ g_nav.selected = <<filtered[k]>>
               /\ filtered[k].href \in Range(Hrefs(index))
               /\ g_nav.pc = "filtered_dirs" =>
                     nav_stack = Append(g_nav.stack,
                                        top \o urlencode(filtered[k].href))

\* the first entry of a filtered list of files was selected, which is not
\* the first file of the directory; the filter text has a capital letter
C22_Witness ==
  /\ g_nav.event = "select" /\ g_nav.pc = "filtered_files"
  /\ g_nav.locals.filter_text = <<"B">>
  /\ g_nav.selected = <<g_nav.locals.shown[1]>>
  /\ g_nav.selected # <<g_nav.locals.files[1]>>

\* the lists browse_directory makes of the index it has fetched
C24_Directories ==
  IF nav_browser = "ROMBrowser"
  THEN apply_filters(filter_file, parse_index(index).directories)
  ELSE list_dirs_links(index)

C24_Files ==
  IF nav_browser = "ROMBrowser"
  THEN apply_filters(filter_file, parse_index(index).files)
  ELSE list_files_links(index)

\* C24: when the index that was fetched gives no directory and no file
\* after filtering, browse_directory has returned as on back: the session
\* is in the loop of the calling directory, or at the main menu, and has
\* not ended.
C24_EmptyIndexIsBack ==
  (g_nav.event = "fetch" /\ C24_Directories = <<>> /\ C24_Files = <<>>) =>
     /\ nav_stack = SubSeq(g_nav.stack, 1, Len(g_nav.stack) - 1)
     /\ nav_pc = (IF Len(g_nav.stack) > 1 THEN "fetch" ELSE "menu")

\* ROMBrowser has fetched, in a directory entered from a listing, an index
\* whose entries are all hidden by the filters
C24_Witness ==
  /\ g_nav.event = "fetch" /\ C24_Directories = <<>> /\ C24_Files = <<>>
  /\ index # <<>> /\ filter_file.exists
  /\ Len(g_nav.stack) = 2
  /\ nav_pc = "fetch"

\* at a prompt of directories, some answer brings the list of files of the
\* same directory nearer: at the list of directories an answer that
\* get_user_choice returns -3 for, with a filter text that some directory
\* matches; at the filtered list an answer that selects no directory, after
\* which the files are listed
C30_TowardsFiles ==
  \/ /\ nav_pc = "dirs"
     /\ \E input \in NavInputs, filter_text \in FilterPromptTexts :
           /\ get_user_choice(nav_browser, input,
                              Len(nav_locals.directories)) = Num(-3)
           /\ filter_items(nav_locals.directories, Strip(filter_text)) # <<>>
  \/ /\ nav_pc = "filtered_dirs"
     /\ \E input \in NavInputs :
           LET choice == get_user_choice(nav_browser, input,
                                         Len(nav_locals.shown))
           IN  ~(Truthy(choice) /\ choice.value > 0)

\* C30: when the index of a directory lists files and directories, the
\* user at the prompt of the directories has an answer that leads to the
\* prompt of the files, where every file can be selected by its number.
C30_FilesReachable ==
  /\ (nav_pc \in {"dirs", "filtered_dirs"} /\ nav_locals.files # <<>>) =>
        C30_TowardsFiles
  /\ nav_pc = "files" =>
        \A k \in 1..Len(nav_locals.files) :
           get_user_choice(nav_browser, <<DigitChars[k + 1]>>,
                           Len(nav_locals.files)) = Num(k)

(***************************************************************************)
(* Properties of the custom ratings.                                       *)
(***************************************************************************)
\* C11: get_final_rating(name, downloaded) has returned the rating last set
\* for the name by a set_custom_rating that returned True, unless
\* remove_custom_rating was called for the name since; it has returned
\* `downloaded` as it was passed otherwise.  This holds after any calls that
\* set and remove ratings and tags.
C11_FinalRatingIsOverride ==
  r_last.op = "get_final_rating" =>
     r_last.value = IF g_rating[r_last.game_name].is_none
                    THEN r_last.downloaded
                    ELSE g_rating[r_last.game_name]

\* a rating of 0 was set for a game with another downloaded rating, tags
\* were changed since, and get_final_rating has returned the 0; and the
\* downloaded rating is returned for the other game
C11_Witness ==
  /\ r_last.op = "get_final_rating"
  /\ g_rating[r_last.game_name] = Num(0)
  /\ r_last.downloaded = Num(70)
  /\ r_last.value = Num(0)
  /\ r_last.data[r_last.game_name].tags # <<>>
  /\ r_last.file.exists

\* the rating argument is not parseable as a number, or is a number outside
\* [0, 10]
C12_Invalid(arg) ==
  \/ ~to_float(arg).ok
  \/ to_float(arg).value.is_nan
  \/ to_float(arg).value.tenths < 0
  \/ to_float(arg).value.tenths > 100

\* C12: set_custom_rating(name, r) with r outside [0, 10] or not parseable
\* as a number has returned False, and custom_data and the file are as they
\* were before the call: a rating set before is kept and no entry is made.
C12_InvalidRatingRejected ==
  (r_last.op = "set_custom_rating" /\ C12_Invalid(r_last.rating_arg)) =>
     /\ r_last.result = FALSE
     /\ custom_data = r_last.data
     /\ data_file = r_last.file

\* a string that is no number was given as the rating of a game that has
\* none, after a rating was stored for the other game
C12_Witness ==
  /\ r_last.op = "set_custom_rating"
  /\ r_last.rating_arg = StrArg(<<"x">>)
  /\ r_last.result = FALSE
  /\ ~custom_data[r_last.game_name].present
  /\ \E n \in GameNames : custom_data[n].rating = Num(85)
  /\ data_file.exists

(***************************************************************************)
(* Properties of find_executables.                                         *)
(***************************************************************************)
\* C13: for the files of a tree, find_executables selects the same files
\* in whatever order the walk yields them, also when two candidates in
\* different directories under one game directory have the same rank and
\* the same lowercase name.
C13_ScanDeterministic ==
  scan_called =>
     \A walk \in Walks(scan_tree) :
        Range(find_executables(scan_variant, walk)) = Range(scan_selected)

\* the files of the tree that are candidates: an executable that is not
\* excluded, or for create_shortcuts_config.py a launcher shortcut
Candidates ==
  {file \in scan_tree :
     \/ is_executable(scan_variant, file)
     \/ is_launcher_lnk(scan_variant, file)}

\* exactly one file is selected for every game directory that has a
\* candidate, and it is one of the candidates of that directory
OnePerGroup ==
  /\ Range(scan_selected) \subseteq Candidates
  /\ \A file \in Candidates :
        Cardinality({i \in DOMAIN scan_selected :
                       scan_selected[i].game_dir = file.game_dir}) = 1

\* the preference of a name under shipping > win64 > launcher > default,
\* a launcher shortcut above them all: the greater, the more preferred
C14_ShippingFirst(name) ==
  IF EndsWith(NameLower(name), <<".", "l", "n", "k">>) THEN 4
  ELSE IF Contains(NameLower(name), <<"s", "h", "i", "p", "p", "i", "n",
      "g">>) THEN 3
  ELSE IF Contains(NameLower(name), <<"w", "i", "n", "6", "4">>) THEN 2
  ELSE IF Contains(NameLower(name), <<"l", "a", "u", "n", "c", "h", "e",
      "r">>) THEN 1
  ELSE 0

\* C14 as stated: in each group exactly one candidate is selected, the most
\* preferred under shipping > win64 > launcher > default with a launcher
\* shortcut preferred over all, ties broken by lowercase name.
C14_MostPreferredSelected ==
  scan_called =>
     /\ OnePerGroup
     /\ \A i \in DOMAIN scan_selected : \A file \in Candidates :
          file.game_dir = scan_selected[i].game_dir =>
             \/ C14_ShippingFirst(file.name)
                  < C14_ShippingFirst(scan_selected[i].name)
             \/ /\ C14_ShippingFirst(file.name)
                     = C14_ShippingFirst(scan_selected[i].name)
                /\ ~NameLess(NameLower(file.name),
                             NameLower(scan_selected[i].name))

\* the preference of a name under default > launcher > win64 > shipping,
\* a launcher shortcut above them all: the smaller, the more preferred
C14_DefaultFirst(name) ==
  IF EndsWith(NameLower(name), <<".", "l", "n", "k">>) THEN 0
  ELSE IF Contains(NameLower(name), <<"s", "h", "i", "p", "p", "i", "n",
      "g">>) THEN 4
  ELSE IF Contains(NameLower(name), <<"w", "i", "n", "6", "4">>) THEN 3
  ELSE IF Contains(NameLower(name), <<"l", "a", "u", "n", "c", "h", "e",
      "r">>) THEN 2
  ELSE 1

\* C14, amended: in each group exactly one candidate is selected, the most
\* preferred under default > launcher > win64 > shipping (the first of the
\* hints shipping, win64, launcher that the lowercase name contains
\* decides; a name with none is default), with a launcher shortcut
\* preferred over all; ties are broken by lowercase name.
C14_DefaultPreferredSelected ==
  scan_called =>
     /\ OnePerGroup
     /\ \A i \in DOMAIN scan_selected : \A file \in Candidates :
          file.game_dir = scan_selected[i].game_dir =>
             \/ C14_DefaultFirst(file.name)
                  > C14_DefaultFirst(scan_selected[i].name)
             \/ /\ C14_DefaultFirst(file.name)
                     = C14_DefaultFirst(scan_selected[i].name)
                /\ ~NameLess(NameLower(file.name),
                             NameLower(scan_selected[i].name))

\* a game directory holds a shipping build, a win64 build and an executable
\* with no hint, and the last one is selected
C14_Witness ==
  /\ scan_called
  /\ \E a, b, c \in Candidates :
        /\ C14_DefaultFirst(a.name) = 4
        /\ C14_DefaultFirst(b.name) = 3
        /\ C14_DefaultFirst(c.name) = 1
        /\ a.game_dir = c.game_dir /\ b.game_dir = c.game_dir
        /\ scan_selected = <<c>>

\* the extension of the file is allowed and its lowercase name holds no
\* entry of the deny-list
C15_Allowed(file) ==
  /\ \E ext \in exe_extensions : EndsWith(NameLower(file.name), ext)
  /\ \A pattern \in exclude_patterns(scan_variant) :
        ~Contains(NameLower(file.name), pattern)

\* C15 as stated: every file find_executables groups or returns has an
\* allowed extension and a lowercase name with no entry of the deny-list.
C15_OnlyAllowedSelected ==
  scan_called =>
     \A file \in Range(found(scan_variant, scan_walk))
                    \cup Range(scan_selected) : C15_Allowed(file)

\* C15, amended: every file find_executables groups or returns has an
\* allowed extension and a lowercase name with no entry of the deny-list,
\* or, in create_shortcuts_config.py, is a .lnk file whose lowercase name
\* contains launch, play, start or run.
C15_AllowedOrLauncherLnk ==
  scan_called =>
     \A file \in Range(found(scan_variant, scan_walk))
                    \cup Range(scan_selected) :
        \/ C15_Allowed(file)
        \/ /\ scan_variant = "config"
           /\ EndsWith(NameLower(file.name), <<".", "l", "n", "k">>)
           /\ \E keyword \in lnk_keywords :
                 Contains(NameLower(file.name), keyword)

\* the tree holds an uninstaller, a text file and a game executable, and
\* only the last is returned
C15_Witness ==
  /\ scan_called
  /\ Cardinality(scan_tree) = 3
  /\ \E file \in scan_tree : Contains(NameLower(file.name), <<"u", "n",
      "i", "n", "s", "0", "0", "0", ".", "e", "x", "e">>)
  /\ \E file \in scan_tree : EndsWith(file.name, <<".", "t", "x", "t">>)
  /\ Len(scan_selected) = 1
  /\ C15_Allowed(scan_selected[1])

(***************************************************************************)
(* Properties of the downloader.                                           *)
(***************************************************************************)
InBatch == dl_pc \in {"loop", "df_get", "df_write", "batch_done"}

\* the attempts of the running batch that ended with the given outcome
CountOutcome(o) ==
  Cardinality({i \in 1..Len(g_attempts) : g_attempts[i].outcome = o})

\* C2: a download_file call that repeats, with the same arguments, a call
\* that succeeded returns True, sends no HTTP request, adds 1 to
\* skipped_files and changes no other statistic; the one file of that name
\* is in the download directory.
C2_SecondCallSkips ==
  (g_call.repeat /\ g_call.result # "none") =>
     /\ g_call.result = "True"
     /\ g_call.requests = 0
     /\ g_call.filename \in dl_files
     /\ download_stats = [g_call.before EXCEPT !.skipped_files = @ + 1]

\* a file is downloaded and then asked for again in the same process
C2_Witness ==
  /\ g_call.repeat /\ g_call.result = "True"
  /\ g_call.before.downloaded_files = 1
  /\ download_stats.skipped_files = 1

\* C3: when download_from_queue has run to completion on a queue file of N
\* non-empty lines, N download_file calls were made, downloaded_files,
\* skipped_files and failed_files grew by the number of calls of each
\* outcome (N together), skipped_files by the number of items whose file
\* existed when attempted, and the queue file is gone; the queue [A, B] with
\* A on disk and B downloaded gives downloaded 1, skipped 1, failed 0.
C3_QueueCompletes ==
  (dl_pc = "batch_done" /\ batch_kind = "queue") =>
     LET N == Len(read_lines(g_batch0.queue.text))
         d == download_stats.downloaded_files - g_batch0.stats.downloaded_files
         k == download_stats.skipped_files - g_batch0.stats.skipped_files
         f == download_stats.failed_files - g_batch0.stats.failed_files
     IN  /\ Len(g_attempts) = N
         /\ d = CountOutcome("downloaded")
         /\ k = CountOutcome("skipped")
         /\ f = CountOutcome("failed")
         /\ d + k + f = N
         /\ k = Cardinality({i \in 1..N : g_attempts[i].existed})
         /\ ~queue_file.exists
         /\ (/\ N = 2
             /\ g_attempts[1].existed
             /\ g_attempts[2].outcome = "downloaded")
               => (d = 1 /\ k = 1 /\ f = 0)

\* the queue [A, B] with A on disk and B downloaded, run by --queue
C3_Witness ==
  /\ dl_pc = "batch_done" /\ batch_kind = "queue" /\ dl_mode = "queue"
  /\ Len(g_attempts) = 2
  /\ g_attempts[1].existed
  /\ g_attempts[2].outcome = "downloaded"
  /\ g_attempts[1].url # g_attempts[2].url
  /\ download_stats.downloaded_files = 1
  /\ download_stats.skipped_files = 1
  /\ download_stats.failed_files = 0

\* C4: while download_from_queue is in its loop, and after the process was
\* interrupted or killed anywhere in the loop, the queue file exists with
\* the contents the batch started from.
C4_QueueKeptDuringLoop ==
  (batch_kind = "queue" /\ dl_pc \in {"loop", "df_get", "df_write", "dead"}) =>
     /\ queue_file.exists
     /\ queue_file = g_batch0.queue

\* the process died in the loop of a queue batch while writing a file
C4_Witness ==
  /\ batch_kind = "queue" /\ dl_pc = "dead"
  /\ dl_partial # {}
  /\ queue_file.exists

\* C5: in a batch, the calls made so far are the first items of the list,
\* each once and in order, whatever their outcomes; failed_files grew by the
\* number of failed calls; the batch ends only when every item was
\* attempted.
C5_FailuresDoNotAbort ==
  InBatch =>
     /\ Len(g_attempts) = batch_i - 1
     /\ Len(g_attempts) <= Len(batch_items)
     /\ \A i \in 1..Len(g_attempts) :
           /\ g_attempts[i].url = batch_items[i].url
           /\ g_attempts[i].filename = batch_items[i].filename
     /\ download_stats.failed_files - g_batch0.stats.failed_files
          = CountOutcome("failed")
     /\ dl_pc = "batch_done" => Len(g_attempts) = Len(batch_items)

\* a platform batch whose first download failed and whose second succeeded
C5_Witness ==
  /\ dl_pc = "batch_done" /\ batch_kind = "platform"
  /\ Len(g_attempts) = 2
  /\ g_attempts[1].outcome = "failed"
  /\ g_attempts[2].outcome = "downloaded"

\* C16: in a platform batch started with a file-count limit k
\* (download_platform_roms(platform, k)), the files the loop attempts are
\* the first k of the sorted list of ROM files, none when k <= 0: at most k
\* files, for every integer k.
C16_AtMostMaxFiles ==
  (batch_kind = "platform" /\ InBatch /\ ~g_batch0.max_files.is_none) =>
     LET k == g_batch0.max_files.value
         n == IF k <= 0 THEN 0
              ELSE IF k < Len(g_batch0.rom_files) THEN k
              ELSE Len(g_batch0.rom_files)
     IN  /\ Len(batch_items) <= (IF k <= 0 THEN 0 ELSE k)
         /\ [i \in 1..Len(batch_items) |-> batch_items[i].filename]
              = SubSeq(g_batch0.rom_files, 1, n)

C20_RerunCompletesQueue ==
  (/\ dl_pc = "batch_done" /\ batch_kind = "queue" /\ g_batch0.resumes
   /\ CountOutcome("failed") = 0) =>
     /\ Len(g_attempts) = Len(batch_items)
     /\ \A i \in 1..Len(g_attempts) :
           /\ g_attempts[i].url = batch_items[i].url
           /\ g_attempts[i].existed => g_attempts[i].outcome = "skipped"
           /\ ~g_attempts[i].existed => g_attempts[i].outcome = "downloaded"
           /\ path_exists(dl_files, g_attempts[i].filename)
           /\ g_attempts[i].filename \notin dl_partial
     /\ ~queue_file.exists

\* C28: a file of the download directory that was not written to its end
\* exists only while download_file is writing it: a call that failed or was
\* interrupted after the file was opened has left no file of that name, and
\* a call that is skipped because its file exists finds a whole file.
C28_NoPartialFileLeft ==
  /\ dl_pc # "df_write" => dl_partial = {}
  /\ \A i \in 1..Len(g_attempts) :
        g_attempts[i].outcome = "skipped" =>
           g_attempts[i].filename \notin dl_partial

\* C29: in every state of a session of ROMDownloader, also after several
\* batches run from the menu, downloaded_files + failed_files +
\* skipped_files <= total_files.
C29_CountsWithinTotal ==
  download_stats.downloaded_files + download_stats.failed_files
     + download_stats.skipped_files <= download_stats.total_files

(***************************************************************************)
(* Properties of the shared queue file, the pages, the launcher and the    *)
(* name resolver.                                                          *)
(***************************************************************************)
\* C27: with ROMBrowser and the downloader running on the one queue file,
\* every URL of the browser's queue (those it has added, and those it
\* loaded) is in the queue file or was attempted by download_file.
C27_NoQueuedUrlLost ==
  \A k \in 1..Len(download_queue) :
     \/ /\ queue_file.exists
        /\ download_queue[k] \in Range(read_lines(queue_file.text))
     \/ \E i \in 1..Len(g_attempts) : g_attempts[i].url = download_queue[k]

\* C23: the entries display_items shows are one page of the list, of at
\* most page_size consecutive entries, and a number is accepted at the
\* prompt only for an entry of the page that is shown.
C23_SelectionOnPage ==
  /\ pager.pc \in {"listed", "chosen"} =>
        /\ Cardinality(pager.shown) <= page_size
        /\ \A i, j \in pager.shown :
              \A k \in i..j : k \in pager.shown
  /\ (pager.pc = "chosen" /\ ~pager.choice.is_none
                          /\ pager.choice.value > 0) =>
        pager.choice.value \in pager.shown

\* C25: at most one thread of _download_metadata_thread is running.
C25_OneWorker ==
  Cardinality({i \in 1..Len(gui.threads) : Running(gui, i)}) <= 1

\* the cleaned form of a name: one that begins with "launch " in any case
\* of the letters loses its "Launch " and the blanks at its ends
C26_Clean(name) ==
  IF StartsWith(NameLower(name), NameLower(LaunchPrefix))
  THEN Strip(Replace(name, LaunchPrefix, <<>>)) ELSE name

\* the value returned is the value of the table for a key that is the name
\* or its cleaned form, up to the case of the letters, or else the cleaned
\* form
C26_Returned ==
  resolver.pc = "returned" =>
        LET clean == C26_Clean(resolver.name)
            keys == {i \in 1..Len(game_mappings) :
                       NameLower(game_mappings[i][1])
                          \in {NameLower(resolver.name), NameLower(clean)}}
        IN  IF keys # {}
            THEN \E i \in keys : resolver.result = game_mappings[i][2]
            ELSE resolver.result = clean

\* C26: a call of resolve_game_name does not end in RecursionError, and
\* the value it returns is the value of the table for a key that is the
\* name, or the name without a leading "Launch ", up to the case of the
\* letters, or else that cleaned name.
C26_ResolveReturns == resolver.pc # "raised" /\ C26_Returned


====
